---- MODULE Spec2Model ----
(***************************************************************************)
(* Pluto Hub bank: the contract engine (Execute / Settle / Cancel) over    *)
(* the user, session and ledger stores.  Every `await` of a use case is a  *)
(* suspension point: the steps of one call interleave with the steps of    *)
(* other calls, and each store operation is its own database statement.    *)
(***************************************************************************)
EXTENDS Integers, Sequences, FiniteSets, TLC

(* ---------------------------------------------------------------------- *)
(* Bounds of the model                                                    *)
(* ---------------------------------------------------------------------- *)
MaxSessions == 2
MaxTime == 2
MaxUids == 2
MaxCalls == 3
MaxFailures == 1
MaxAmount == 9
MaxPot == 20
MaxLobbyCalls == 3
MaxClients == 2
MaxBeats == 1
MaxBalance == 8
MaxDelta == 3
MaxRollCalls == 3
MaxSize == 2
MaxValue == 2
DefaultTtlMs == 1

(* ---------------------------------------------------------------------- *)
(* Fixed data: the catalog and the users the calls run against            *)
(* ---------------------------------------------------------------------- *)
(* request slots: two calls can be in flight at once *)
Procs == {1, 2}

UserOrder == <<"A", "B", "C">>
Users == {UserOrder[k] : k \in DOMAIN UserOrder}

UidInputs == {"fa", "fb", "fc", "fx"}

firebaseUid(u) == CASE u = "A" -> "fa" [] u = "B" -> "fb" [] OTHER -> "fc"

InitialBalance(u) == CASE u = "A" -> 20 [] u = "B" -> 20 [] OTHER -> 5

ContractInputs == {"c1", "c2", "cx"}

EntryFee == 10
CheapEntryFee == 5
PlatformFeePercent == 5
MinPlayers == 2
MaxPlayers == 2
TtlSeconds == 1

NoContract == [id |-> "", entryFee |-> 0, platformFee |-> 0, minPlayers |-> 0,
               maxPlayers |-> 0, ttlSeconds |-> 0, isActive |-> FALSE]

(* contractRepository.findContractById: c1 is active, c2 is inactive, any
   other id has no row *)
findContractById(cid) ==
    IF cid \in {"c1", "c2"}
    THEN [id |-> cid, entryFee |-> IF cid = "c1" THEN EntryFee ELSE CheapEntryFee,
          platformFee |-> PlatformFeePercent,
          minPlayers |-> MinPlayers, maxPlayers |-> MaxPlayers,
          ttlSeconds |-> TtlSeconds, isActive |-> (cid = "c1")]
    ELSE NoContract

(* ---------------------------------------------------------------------- *)
(* Pure helpers                                                           *)
(* ---------------------------------------------------------------------- *)
RECURSIVE SeqSum(_)
SeqSum(s) == IF s = <<>> THEN 0 ELSE Head(s) + SeqSum(Tail(s))

Range(s) == {s[k] : k \in DOMAIN s}

SeqsUpTo(S, n) == UNION {[1..k -> S] : k \in 0..n}

(* Contract.calculateTotalPot *)
calculateTotalPot(c, playerCount) == c.entryFee * playerCount

(* Contract.calculatePlatformFee: (pot * BigInt(platformFee)) / 100n *)
calculatePlatformFee(c, pot) == (pot * c.platformFee) \div 100

(* Contract.calculatePrizePool *)
calculatePrizePool(c, pot) == pot - calculatePlatformFee(c, pot)

(* Contract.isValidPlayerCount *)
isValidPlayerCount(c, count) == count >= c.minPlayers /\ count <= c.maxPlayers

(* distributeEvenly(amount, count): base + 1 for the first `remainder` *)
(* an even split that drops the remainder *)
distributeEvenlyFloor(amount, count) ==
    IF count = 0 THEN <<>> ELSE [k \in 1..count |-> amount \div count]

distributeEvenly(amount, count) ==
    IF count = 0 THEN <<>>
    ELSE [k \in 1..count |->
            IF k - 1 < amount % count THEN (amount \div count) + 1
            ELSE amount \div count]

(* ---------------------------------------------------------------------- *)
(* User entity                                                            *)
(* ---------------------------------------------------------------------- *)
availableBalance(u) == u.balance - u.lockedBalance

canAfford(u, amount) == availableBalance(u) >= amount

(* lockFunds that takes the amount out of the balance as it locks it *)
lockFundsOutOfBalance(u, amount) ==
    [u EXCEPT !.lockedBalance = @ + amount, !.balance = @ - amount]

lockFunds(u, amount) == [u EXCEPT !.lockedBalance = @ + amount]

unlockThrows(u, amount) == amount > u.lockedBalance

(* unlockFunds that also pays the amount into the balance *)
unlockFundsIntoBalance(u, amount) ==
    [u EXCEPT !.lockedBalance = @ - amount, !.balance = @ + amount]

unlockFunds(u, amount) == [u EXCEPT !.lockedBalance = @ - amount]

(* deductLockedFunds that releases the lock but forgets the balance *)
deductLockedFundsKeepBalance(u, amount) == [u EXCEPT !.lockedBalance = @ - amount]

deductLockedFunds(u, amount) ==
    [u EXCEPT !.lockedBalance = @ - amount, !.balance = @ - amount]

addWinnings(u, amount) == [u EXCEPT !.balance = @ + amount]

(* ---------------------------------------------------------------------- *)
(* State                                                                  *)
(* ---------------------------------------------------------------------- *)
VARIABLES
    users,      \* user rows: id -> [balance, lockedBalance]
    sessions,   \* game_session rows with their player rows; id = index
    ledger,     \* ledger_entry rows in insertion order
    tokens,     \* session ids for which Execute has returned a session token
    now,        \* the clock read by new Date() / Date.now()
    proc,       \* per request: position in its use case and its locals
    calls,      \* requests received so far
    failures,   \* store operations that have rejected so far
    evaluated,  \* the last call of a pure helper: its arguments and result
    lobbies,    \* lobby rows in creation order: id -> [contractId, status]
    lobbyPlayers, \* lobbyPlayer rows in insertion order: [lobbyId, userId]
    lproc,      \* per lobby request: position in its use case and its locals
    lcalls,     \* lobby requests received so far
    clients,    \* LobbyBroadcaster.lobbies: lobbyId -> its clients, oldest first
    streams,    \* per SSE client: open, able to write, and what was written
    log,        \* every broadcast(lobbyId, event) in the order it was invoked
    gameSession, \* a GameSession entity: _status, _settledAt, and its last call
    userEntity, \* a User entity: _balance, _lockedBalance, and its last call
    cache,      \* LRUCache.cache: the Map's entries in insertion order
    recency,    \* the keys in the order of their last set or returning get
    recencyHas, \* the same order when a has that finds the key counts too
    cacheCall,  \* the last call on the LRUCache and what it returned
    diceGame,   \* the diceRoyaleGame row and its diceRoyaleRoll rows, oldest first
    dproc,      \* per roll request: position in RollDice and its DiceGame snapshot
    dcalls,     \* roll requests received so far
    completions \* invocations of the game-complete callback so far

lobbyVars == <<lobbies, lobbyPlayers, lproc, lcalls, clients, streams, log>>

(* the objects that are exercised on their own *)
cacheVars == <<cache, recency, recencyHas, cacheCall>>

diceVars == <<diceGame, dproc, dcalls, completions>>

unitVars == <<gameSession, userEntity, cacheVars, diceVars>>

vars == <<users, sessions, ledger, tokens, now, proc, calls, failures, evaluated,
          lobbyVars, unitVars>>

(* the players of the session the dice game was started for *)
DicePlayers == <<"A", "B">>

(* the game as StartGame creates it: ROLLING, nobody has rolled *)
NewDiceGame == [status |-> "ROLLING", rolls |-> <<>>]

DiceIdle == [pc |-> "idle", userId |-> "", rolled |-> {}, rollValue |-> 0, err |-> ""]

(* the cache has not been called *)
NoCacheCall == [op |-> "new", key |-> "", found |-> FALSE, value |-> 0]

NullDate == [isNull |-> TRUE, time |-> 0]

(* a GameSession as sessionRepository.create returns it *)
NewGameSession ==
    [status |-> "PENDING", settledAt |-> NullDate, last |-> "new", threw |-> FALSE]

(* a User as toDomain builds it from a row the bank has written *)
NewUser(balance, lockedBalance) ==
    [balance |-> balance, lockedBalance |-> lockedBalance,
     last |-> "new", amount |-> 0, threw |-> FALSE]

InitUnits ==
    /\ gameSession = NewGameSession
    /\ userEntity = NewUser(InitialBalance("C"), 0)
    /\ cache = <<>>
    /\ recency = <<>>
    /\ recencyHas = <<>>
    /\ cacheCall = NoCacheCall
    /\ diceGame = NewDiceGame
    /\ dproc = [p \in Procs |-> DiceIdle]
    /\ dcalls = 0
    /\ completions = 0

(* no helper has been called on its own *)
NoEvaluation == [fn |-> "none"]

(* lobby ids: a lobby is created by a Join at most *)
LobbyIds == 1..MaxLobbyCalls

(* the broadcaster's map has no entry for a lobby *)
NoClients == [has |-> FALSE, set |-> <<>>]

(* a lobby request slot that holds no request *)
LobbyIdle == [pc |-> "idle", op |-> "", err |-> "", userId |-> "", userBalance |-> 0,
              contractId |-> "", lobbyId |-> 0]

NoSession == [id |-> 0, contractId |-> "", status |-> "", totalPot |-> 0,
              expiresAt |-> 0, settled |-> FALSE, players |-> <<>>]

Idle == [pc |-> "idle", op |-> "", err |-> "", msg |-> "", cid |-> "",
         sess |-> NoSession, sawStatus |-> "", winnerInfo |-> <<>>, rows |-> <<>>,
         ents |-> <<>>, entries |-> <<>>, i |-> 0, writes |-> 0]

Failed(op, err, msg, sawStatus, writes) ==
    [Idle EXCEPT !.pc = "failed", !.op = op, !.err = err, !.msg = msg,
                 !.sawStatus = sawStatus, !.writes = writes]

(* what a completed call leaves behind: its kind, its session, its writes *)
Done(me) ==
    [Idle EXCEPT !.pc = "done", !.op = me.op, !.sess = [NoSession EXCEPT !.id = me.sess.id],
                 !.sawStatus = me.sawStatus, !.writes = me.writes + 1]

(* a request is taken by the first free slot *)
FreeSlot(p) ==
    /\ proc[p].pc = "idle"
    /\ \A q \in Procs : q < p => proc[q].pc # "idle"

Init ==
    /\ users = [u \in Users |-> [balance |-> InitialBalance(u), lockedBalance |-> 0]]
    /\ sessions = <<>>
    /\ ledger = <<>>
    /\ tokens = {}
    /\ now = 0
    /\ proc = [p \in Procs |-> Idle]
    /\ calls = 0
    /\ failures = 0
    /\ evaluated = NoEvaluation
    /\ InitUnits
    /\ lobbies = <<>>
    /\ lobbyPlayers = <<>>
    /\ lproc = [p \in Procs |-> LobbyIdle]
    /\ lcalls = 0
    /\ clients = [l \in LobbyIds |-> NoClients]
    /\ streams = <<>>
    /\ log = <<>>

(* ---------------------------------------------------------------------- *)
(* Store operations                                                       *)
(* ---------------------------------------------------------------------- *)
(* toEntity of a user row *)
toEntity(u) ==
    [id |-> u, balance |-> users[u].balance, lockedBalance |-> users[u].lockedBalance]

(* a lookup that returns one entity per uid of the list, repeats included *)
findByFirebaseUidsEach(uids) ==
    LET known(uid) == \E u \in Users : firebaseUid(u) = uid
        asked == SelectSeq(uids, known)
    IN  [k \in DOMAIN asked |->
            toEntity(CHOOSE u \in Users : firebaseUid(u) = asked[k])]

(* userRepository.findByFirebaseUids: the rows whose firebaseUid is in the
   list, each once, in the table's order *)
findByFirebaseUids(uids) ==
    LET hit(u) == firebaseUid(u) \in Range(uids)
        found == SelectSeq(UserOrder, hit)
    IN  [k \in DOMAIN found |-> toEntity(found[k])]

(* userRepository.findByIds *)
findByIds(ids) ==
    LET hit(u) == u \in ids
        found == SelectSeq(UserOrder, hit)
    IN  [k \in DOMAIN found |-> toEntity(found[k])]

(* userRepository.updateBalance: unconditional write of both columns *)
updateBalance(us, e) ==
    [us EXCEPT ![e.id] = [balance |-> e.balance, lockedBalance |-> e.lockedBalance]]

(* ledgerRepository.appendMany: one batch, all rows or none *)
appendMany(l, entries) == l \o entries

LedgerRow(u, type, amount, balanceAfter, sid) ==
    [userId |-> u, type |-> type, amount |-> amount,
     balanceAfter |-> balanceAfter, sessionId |-> sid]

(* sessionRepository.create: status PENDING, one player row per user *)
createSession(ss, cid, totalPot, expiresAt, ents, amountLocked) ==
    Append(ss, [id |-> Len(ss) + 1, contractId |-> cid, status |-> "PENDING",
                totalPot |-> totalPot, expiresAt |-> expiresAt, settled |-> FALSE,
                players |-> [k \in DOMAIN ents |->
                               [userId |-> ents[k].id, amountLocked |-> amountLocked,
                                isWinner |-> FALSE, winAmount |-> 0]]])

(* sessionRepository.updateStatus: unconditional; settledAt only for SETTLED *)
updateStatus(ss, sid, status) ==
    [ss EXCEPT ![sid] = [@ EXCEPT !.status = status,
                                  !.settled = IF status = "SETTLED" THEN TRUE ELSE @]]

(* a settle whose status update has no where clause *)
settleSessionEveryRow(ss, sid, rows) ==
    [s \in DOMAIN ss |->
        IF s = sid
        THEN [ss[s] EXCEPT !.status = "SETTLED", !.settled = TRUE,
                           !.players = [k \in DOMAIN @ |->
                                          [@[k] EXCEPT !.isWinner = rows[k].isWinner,
                                                       !.winAmount = rows[k].winAmount]]]
        ELSE [ss[s] EXCEPT !.status = "SETTLED", !.settled = TRUE]]

(* sessionRepository.settle: the player rows named by the results, then the
   status, in one transaction *)
settleSession(ss, sid, rows) ==
    [ss EXCEPT ![sid] =
        [@ EXCEPT !.status = "SETTLED", !.settled = TRUE,
                  !.players = [k \in DOMAIN @ |->
                                 [@[k] EXCEPT !.isWinner = rows[k].isWinner,
                                              !.winAmount = rows[k].winAmount]]]]

(* canCancel that only refuses a session already cancelled *)
canCancelUnlessCancelled(status) == status # "CANCELLED"

(* GameSession.canCancel / canSettle *)
canCancel(status) == status \in {"PENDING", "ACTIVE"}

(* isExpired that already refuses at the very instant of expiresAt *)
isExpiredOrDue(s) == now >= s.expiresAt

(* GameSession.isExpired: new Date() > expiresAt *)
isExpired(s) == now > s.expiresAt

(* verifySessionToken: the payload of a token this process minted, else null
   (0 stands for any string that does not verify) *)
verifySessionToken(tok) == IF tok \in tokens THEN tok ELSE 0

(* ---------------------------------------------------------------------- *)
(* Inputs                                                                 *)
(* ---------------------------------------------------------------------- *)
(* Execute bodies: any list of uids against the active contract, and one
   well-formed list against the inactive and the missing contract *)
ExecuteInputs ==
    {<<"c1", uids>> : uids \in SeqsUpTo(UidInputs, MaxUids) \ {<<>>}}
        \cup {<<"c2", <<"fa", "fb">>>>, <<"cx", <<"fa", "fb">>>>}
        \cup {<<"c2", <<"fa", "fa">>>>, <<"cx", <<"fa", "fa">>>>}

(* What a results list may say about one player id: nothing, a loser, a
   winner without winAmount, or a winner with the explicit winAmount "-1" *)
ExplicitMentions == {"winNegative"}
Mentions == {"absent", "lose", "win"} \cup ExplicitMentions

(* the explicit winAmount string sent: "-1" *)
explicitAmount(m) == 0 - 1

(* A and B have the same balance and play the same part, so the explicit
   amount is given to A and the omission to B; C is never a session player *)
MentionsOf(u) ==
    CASE u = "A" -> {"lose", "win", "winNegative"}
      [] u = "B" -> {"absent", "lose", "win"}
      [] OTHER -> {"absent", "win"}

(* the route's mapping of one results item: winAmount is BigInt(string) when
   the string is given, else undefined *)
ResultOf(u, m) ==
    [playerId |-> u, isWinner |-> (m # "lose"),
     hasAmount |-> (m \in ExplicitMentions),
     winAmount |-> IF m \in ExplicitMentions THEN explicitAmount(m) ELSE 0]

ResultOrders == {UserOrder}

(* Settle bodies: each player id at most once *)
ResultsInputs ==
    {LET named(u) == f[u] # "absent"
         ids == SelectSeq(ord, named)
     IN  [k \in DOMAIN ids |-> ResultOf(ids[k], f[ids[k]])]
       : f \in {g \in [Users -> Mentions] : \A u \in Users : g[u] \in MentionsOf(u)},
         ord \in ResultOrders}

TokenInputs == tokens \cup {0}

(* ---------------------------------------------------------------------- *)
(* Settle: the distribution computed from the results                     *)
(* ---------------------------------------------------------------------- *)
Winners(results) ==
    LET isW(r) == r.isWinner IN SelectSeq(results, isW)

(* winners.map((w, i) => ({playerId, amount: w.winAmount ?? winAmounts[i]})) *)
winnerDistribution(results, prizePool) ==
    LET w == Winners(results)
        winAmounts == distributeEvenly(prizePool, Len(w))
    IN  [k \in DOMAIN w |->
            [playerId |-> w[k].playerId,
             amount |-> IF w[k].hasAmount THEN w[k].winAmount ELSE winAmounts[k]]]

(* winnerDistribution.find(w => w.playerId === id): index of the first match, 0 if none *)
findWinner(dist, id) ==
    LET hits == {k \in DOMAIN dist : dist[k].playerId = id}
    IN  IF hits = {} THEN 0 ELSE CHOOSE k \in hits : \A j \in hits : k <= j

(* per session player, what winnerDistribution.find returns for it *)
winnerInfoOf(players, dist) ==
    [k \in DOMAIN players |->
        LET f == findWinner(dist, players[k].userId)
        IN  [has |-> f # 0, amount |-> IF f = 0 THEN 0 ELSE dist[f].amount]]

(* per session player, the row values sessionRepository.settle is given for
   it: the last result that names the player decides isWinner, winAmount is
   winnerDistribution.find(...)?.amount ?? 0n *)
settleRowsOf(players, results, dist) ==
    [k \in DOMAIN players |->
        LET hits == {j \in DOMAIN results : results[j].playerId = players[k].userId}
            last == CHOOSE j \in hits : \A h \in hits : h <= j
            f == findWinner(dist, players[k].userId)
        IN  IF hits = {}
            THEN [isWinner |-> players[k].isWinner, winAmount |-> players[k].winAmount]
            ELSE [isWinner |-> results[last].isWinner,
                  winAmount |-> IF f = 0 THEN 0 ELSE dist[f].amount]]

(* GameSession.getPlayer(userId).amountLocked *)
amountLockedOf(s, uid) ==
    LET hits == {k \in DOMAIN s.players : s.players[k].userId = uid}
    IN  s.players[CHOOSE k \in hits : TRUE].amountLocked

(* ---------------------------------------------------------------------- *)
(* Execute                                                                *)
(* ---------------------------------------------------------------------- *)
ExecuteInFlight ==
    {p \in Procs : proc[p].pc = "ExecCreate"}

(* steps 1-3 only: the funds check of step 4 left to lockFunds in the loop *)
executeErrorWithoutFundsCheck(contract, playerCount, found) ==
    IF contract = NoContract THEN <<"ContractNotFoundError", "contract">>
    ELSE IF ~contract.isActive THEN <<"GameNotActiveError", "inactive">>
    ELSE IF ~isValidPlayerCount(contract, playerCount)
         THEN <<"ValidationError", "player count">>
    ELSE IF Len(found) # playerCount THEN <<"ValidationError", "users not found">>
    ELSE <<"", "">>

(* steps 1-4 of execute(): the error thrown, "" when every check passes *)
executeError(contract, playerCount, found) ==
    IF contract = NoContract THEN <<"ContractNotFoundError", "contract">>
    ELSE IF ~contract.isActive THEN <<"GameNotActiveError", "inactive">>
    ELSE IF ~isValidPlayerCount(contract, playerCount)
         THEN <<"ValidationError", "player count">>
    ELSE IF Len(found) # playerCount THEN <<"ValidationError", "users not found">>
    ELSE IF \E k \in DOMAIN found : ~canAfford(found[k], contract.entryFee)
         THEN <<"InsufficientFundsError", "funds">>
    ELSE <<"", "">>

(* `Users not found: ${missingUids.join(', ')}`: the uids of the request
   that no found user carries; none when the list only repeats a known uid *)
missingUids(uids, found) ==
    LET foundUids == {firebaseUid(found[k].id) : k \in DOMAIN found}
        missing(uid) == uid \notin foundUids
    IN  SelectSeq(uids, missing)

executeMessage(msg, uids, found) ==
    IF msg # "users not found" THEN msg
    ELSE IF missingUids(uids, found) = <<>> THEN "users not found: "
    ELSE "users not found: uids"

(* steps 1-5: contract, player count, users, funds, totals.  The contract
   row is immutable, so its read is taken together with the users read *)
ExecuteCall(p, cid, uids) ==
    /\ FreeSlot(p)
    /\ calls < MaxCalls
    /\ Len(sessions) + Cardinality(ExecuteInFlight) < MaxSessions
    /\ LET contract == findContractById(cid)
           playerCount == Len(uids)
           found == findByFirebaseUids(uids)
           e == executeError(contract, playerCount, found)
       IN  proc' = [proc EXCEPT ![p] =
             IF e[1] # "" THEN Failed("Execute", e[1], executeMessage(e[2], uids, found), "", 0)
             ELSE [Idle EXCEPT !.pc = "ExecCreate", !.op = "Execute", !.cid = cid,
                               !.ents = found,
                               !.sess = [NoSession EXCEPT
                                   !.totalPot = calculateTotalPot(contract, playerCount),
                                   !.expiresAt = now + contract.ttlSeconds]]]
    /\ calls' = calls + 1
    /\ UNCHANGED <<users, sessions, ledger, tokens, now, failures, evaluated, lobbyVars, unitVars>>

(* step 6: sessionRepository.create *)
ExecCreate(p) ==
    /\ proc[p].pc = "ExecCreate"
    /\ LET me == proc[p]
           contract == findContractById(me.cid)
       IN  /\ sessions' = createSession(sessions, me.cid, me.sess.totalPot,
                                        me.sess.expiresAt, me.ents, contract.entryFee)
           /\ proc' = [proc EXCEPT ![p] =
                 [me EXCEPT !.pc = "ExecLock", !.sess = sessions'[Len(sessions')],
                            !.i = 1, !.writes = @ + 1]]
    /\ UNCHANGED <<users, ledger, tokens, now, calls, failures, evaluated, lobbyVars, unitVars>>

(* step 7, one turn of the loop: lockFunds, updateBalance, push LOCK *)
ExecLock(p) ==
    /\ proc[p].pc = "ExecLock"
    /\ LET me == proc[p]
           contract == findContractById(me.cid)
           user == me.ents[me.i]
           locked == lockFunds(user, contract.entryFee)
       IN  IF ~canAfford(user, contract.entryFee)
           THEN /\ proc' = [proc EXCEPT ![p] =
                      Failed("Execute", "Error", "lockFunds", "", me.writes)]
                /\ UNCHANGED users
           ELSE /\ users' = updateBalance(users, locked)
                /\ proc' = [proc EXCEPT ![p] =
                      [me EXCEPT !.ents[me.i] = locked,
                                 !.entries = Append(@, LedgerRow(user.id, "LOCK",
                                     contract.entryFee, locked.balance, me.sess.id)),
                                 !.i = @ + 1,
                                 !.writes = @ + 1,
                                 !.pc = IF me.i = Len(me.ents) THEN "ExecAppend"
                                        ELSE "ExecLock"]]
    /\ UNCHANGED <<sessions, ledger, tokens, now, calls, failures, evaluated, lobbyVars, unitVars>>

(* steps 7-8: ledgerRepository.appendMany, then the token is minted and
   returned *)
ExecAppend(p) ==
    /\ proc[p].pc = "ExecAppend"
    /\ ledger' = appendMany(ledger, proc[p].entries)
    /\ tokens' = tokens \cup {proc[p].sess.id}
    /\ proc' = [proc EXCEPT ![p] = Done(@)]
    /\ UNCHANGED <<users, sessions, now, calls, failures, evaluated, lobbyVars, unitVars>>

(* ---------------------------------------------------------------------- *)
(* Settle                                                                 *)
(* ---------------------------------------------------------------------- *)
PlayerIds(session) == {session.players[k].userId : k \in DOMAIN session.players}

ResultIds(results) == {results[k].playerId : k \in DOMAIN results}

(* steps 1-6 of execute(): the error thrown, "" when every check passes *)
(* steps 1-5 only: a results list that marks no winner is let through *)
settleErrorWithoutWinnerCheck(sid, session, results) ==
    IF sid = 0 THEN <<"ValidationError", "token">>
    ELSE IF session = NoSession THEN <<"SessionNotFoundError", "session">>
    ELSE IF session.status = "SETTLED" THEN <<"SessionAlreadySettledError", "settled">>
    ELSE IF session.status \in {"CANCELLED", "EXPIRED"}
         THEN <<"ValidationError", "status">>
    ELSE IF isExpired(session) THEN <<"SessionExpiredError", "expired">>
    ELSE IF \E id \in PlayerIds(session) : id \notin ResultIds(results)
         THEN <<"ValidationError", "missing result">>
    ELSE IF findContractById(session.contractId) = NoContract
         THEN <<"ValidationError", "contract">>
    ELSE <<"", "">>

settleError(sid, session, results) ==
    IF sid = 0 THEN <<"ValidationError", "token">>
    ELSE IF session = NoSession THEN <<"SessionNotFoundError", "session">>
    ELSE IF session.status = "SETTLED" THEN <<"SessionAlreadySettledError", "settled">>
    ELSE IF session.status \in {"CANCELLED", "EXPIRED"}
         THEN <<"ValidationError", "status">>
    ELSE IF isExpired(session) THEN <<"SessionExpiredError", "expired">>
    ELSE IF \E id \in PlayerIds(session) : id \notin ResultIds(results)
         THEN <<"ValidationError", "missing result">>
    ELSE IF findContractById(session.contractId) = NoContract
         THEN <<"ValidationError", "contract">>
    ELSE IF Winners(results) = <<>> THEN <<"ValidationError", "no winner">>
    ELSE <<"", "">>

(* steps 1-6: token, session, status, expiry, results, contract, winners.
   Nothing is written; the session row is read here, the user rows later *)
SettleCall(p, tok, results) ==
    /\ FreeSlot(p)
    /\ calls < MaxCalls
    /\ LET sid == verifySessionToken(tok)
           session == IF sid \in DOMAIN sessions THEN sessions[sid] ELSE NoSession
           contract == findContractById(session.contractId)
           prizePool == calculatePrizePool(contract, session.totalPot)
           dist == winnerDistribution(results, prizePool)
           e == settleError(sid, session, results)
       IN  proc' = [proc EXCEPT ![p] =
             IF e[1] # "" THEN Failed("Settle", e[1], e[2], session.status, 0)
             ELSE [Idle EXCEPT !.pc = "SettleFindUsers", !.op = "Settle",
                               !.cid = session.contractId, !.sess = session,
                               !.sawStatus = session.status,
                               !.winnerInfo = winnerInfoOf(session.players, dist),
                               !.rows = settleRowsOf(session.players, results, dist)]]
    /\ calls' = calls + 1
    /\ UNCHANGED <<users, sessions, ledger, tokens, now, failures, evaluated, lobbyVars, unitVars>>

(* step 7: userRepository.findByIds(sessionPlayerIds) *)
SettleFindUsers(p) ==
    /\ proc[p].pc = "SettleFindUsers"
    /\ LET me == proc[p]
       IN  proc' = [proc EXCEPT ![p] =
                      [me EXCEPT !.pc = "SettleUpdate",
                                 !.ents = findByIds(PlayerIds(me.sess)), !.i = 1]]
    /\ UNCHANGED <<users, sessions, ledger, tokens, now, calls, failures, evaluated, lobbyVars, unitVars>>

(* step 7, one turn of the loop: deductLockedFunds, push LOSE, for a winner
   addWinnings and push WIN, then updateBalance *)
SettleUpdate(p) ==
    /\ proc[p].pc = "SettleUpdate"
    /\ LET me == proc[p]
           user == me.ents[me.i]
           amountLocked == amountLockedOf(me.sess, user.id)
           k == CHOOSE j \in DOMAIN me.sess.players : me.sess.players[j].userId = user.id
           winnerInfo == me.winnerInfo[k]
           lost == deductLockedFunds(user, amountLocked)
           paid == IF winnerInfo.has THEN addWinnings(lost, winnerInfo.amount) ELSE lost
           lose == <<LedgerRow(user.id, "LOSE", amountLocked, lost.balance, me.sess.id)>>
           win == IF winnerInfo.has
                  THEN <<LedgerRow(user.id, "WIN", winnerInfo.amount, paid.balance,
                                   me.sess.id)>>
                  ELSE <<>>
       IN  IF amountLocked > user.lockedBalance
           THEN /\ proc' = [proc EXCEPT ![p] =
                      Failed("Settle", "Error", "deductLockedFunds", me.sawStatus,
                             me.writes)]
                /\ UNCHANGED users
           ELSE /\ users' = updateBalance(users, paid)
                /\ proc' = [proc EXCEPT ![p] =
                      [me EXCEPT !.ents[me.i] = paid,
                                 !.entries = @ \o lose \o win,
                                 !.i = @ + 1,
                                 !.writes = @ + 1,
                                 !.pc = IF me.i = Len(me.ents) THEN "SettleAppend"
                                        ELSE "SettleUpdate"]]
    /\ UNCHANGED <<sessions, ledger, tokens, now, calls, failures, evaluated, lobbyVars, unitVars>>

(* step 8: ledgerRepository.appendMany *)
SettleAppend(p) ==
    /\ proc[p].pc = "SettleAppend"
    /\ ledger' = appendMany(ledger, proc[p].entries)
    /\ proc' = [proc EXCEPT ![p] = [@ EXCEPT !.pc = "SettleSession", !.writes = @ + 1]]
    /\ UNCHANGED <<users, sessions, tokens, now, calls, failures, evaluated, lobbyVars, unitVars>>

(* step 9: sessionRepository.settle *)
SettleSession(p) ==
    /\ proc[p].pc = "SettleSession"
    /\ sessions' = settleSession(sessions, proc[p].sess.id, proc[p].rows)
    /\ proc' = [proc EXCEPT ![p] = Done(@)]
    /\ UNCHANGED <<users, ledger, tokens, now, calls, failures, evaluated, lobbyVars, unitVars>>

(* ---------------------------------------------------------------------- *)
(* Cancel                                                                 *)
(* ---------------------------------------------------------------------- *)
cancelErrorChecksExpiry(sid, session) ==
    IF sid = 0 THEN <<"ValidationError", "token">>
    ELSE IF session = NoSession THEN <<"SessionNotFoundError", "session">>
    ELSE IF ~canCancel(session.status) THEN <<"ValidationError", "status">>
    ELSE IF isExpired(session) THEN <<"SessionExpiredError", "expired">>
    ELSE <<"", "">>

(* steps 1-3 of execute(): the error thrown, "" when every check passes *)
cancelError(sid, session) ==
    IF sid = 0 THEN <<"ValidationError", "token">>
    ELSE IF session = NoSession THEN <<"SessionNotFoundError", "session">>
    ELSE IF ~canCancel(session.status) THEN <<"ValidationError", "status">>
    ELSE <<"", "">>

(* steps 1-3: token, session, canCancel *)
CancelCall(p, tok) ==
    /\ FreeSlot(p)
    /\ calls < MaxCalls
    /\ LET sid == verifySessionToken(tok)
           session == IF sid \in DOMAIN sessions THEN sessions[sid] ELSE NoSession
           e == cancelError(sid, session)
       IN  proc' = [proc EXCEPT ![p] =
             IF e[1] # "" THEN Failed("Cancel", e[1], e[2], session.status, 0)
             ELSE [Idle EXCEPT !.pc = "CancelFindUsers", !.op = "Cancel",
                               !.cid = session.contractId, !.sess = session,
                               !.sawStatus = session.status]]
    /\ calls' = calls + 1
    /\ UNCHANGED <<users, sessions, ledger, tokens, now, failures, evaluated, lobbyVars, unitVars>>

(* step 4: userRepository.findByIds *)
CancelFindUsers(p) ==
    /\ proc[p].pc = "CancelFindUsers"
    /\ LET me == proc[p]
       IN  proc' = [proc EXCEPT ![p] =
                      [me EXCEPT !.pc = "CancelUpdate",
                                 !.ents = findByIds(PlayerIds(me.sess)), !.i = 1]]
    /\ UNCHANGED <<users, sessions, ledger, tokens, now, calls, failures, evaluated, lobbyVars, unitVars>>

(* step 4, one turn of the loop: unlockFunds, updateBalance, push UNLOCK *)
CancelUpdate(p) ==
    /\ proc[p].pc = "CancelUpdate"
    /\ LET me == proc[p]
           user == me.ents[me.i]
           amountLocked == amountLockedOf(me.sess, user.id)
           unlocked == unlockFunds(user, amountLocked)
       IN  IF unlockThrows(user, amountLocked)
           THEN /\ proc' = [proc EXCEPT ![p] =
                      Failed("Cancel", "Error", "unlockFunds", me.sawStatus, me.writes)]
                /\ UNCHANGED users
           ELSE /\ users' = updateBalance(users, unlocked)
                /\ proc' = [proc EXCEPT ![p] =
                      [me EXCEPT !.ents[me.i] = unlocked,
                                 !.entries = Append(@, LedgerRow(user.id, "UNLOCK",
                                     amountLocked, unlocked.balance, me.sess.id)),
                                 !.i = @ + 1,
                                 !.writes = @ + 1,
                                 !.pc = IF me.i = Len(me.ents) THEN "CancelAppend"
                                        ELSE "CancelUpdate"]]
    /\ UNCHANGED <<sessions, ledger, tokens, now, calls, failures, evaluated, lobbyVars, unitVars>>

(* step 5: ledgerRepository.appendMany *)
CancelAppend(p) ==
    /\ proc[p].pc = "CancelAppend"
    /\ ledger' = appendMany(ledger, proc[p].entries)
    /\ proc' = [proc EXCEPT ![p] = [@ EXCEPT !.pc = "CancelStatus", !.writes = @ + 1]]
    /\ UNCHANGED <<users, sessions, tokens, now, calls, failures, evaluated, lobbyVars, unitVars>>

(* step 6: sessionRepository.updateStatus(session.id, 'CANCELLED') *)
CancelStatus(p) ==
    /\ proc[p].pc = "CancelStatus"
    /\ sessions' = updateStatus(sessions, proc[p].sess.id, "CANCELLED")
    /\ proc' = [proc EXCEPT ![p] = Done(@)]
    /\ UNCHANGED <<users, ledger, tokens, now, calls, failures, evaluated, lobbyVars, unitVars>>

(* ---------------------------------------------------------------------- *)
(* Environment                                                            *)
(* ---------------------------------------------------------------------- *)
(* the response is sent; the request's locals are gone *)
Return(p) ==
    /\ proc[p].pc \in {"done", "failed"}
    /\ proc' = [proc EXCEPT ![p] = Idle]
    /\ UNCHANGED <<users, sessions, ledger, tokens, now, calls, failures, evaluated, lobbyVars, unitVars>>

Tick ==
    /\ now < MaxTime
    /\ now' = now + 1
    /\ UNCHANGED <<users, sessions, ledger, tokens, proc, calls, failures, evaluated, lobbyVars, unitVars>>

AwaitingStore ==
    {"ExecCreate", "ExecLock", "ExecAppend",
     "SettleFindUsers", "SettleUpdate", "SettleAppend", "SettleSession",
     "CancelFindUsers", "CancelUpdate", "CancelAppend", "CancelStatus"}

(* the awaited store operation rejects (connection lost, statement timeout):
   the rejection propagates out of execute(); nothing undoes earlier writes *)
StoreFails(p) ==
    /\ proc[p].pc \in AwaitingStore
    /\ failures < MaxFailures
    /\ failures' = failures + 1
    /\ proc' = [proc EXCEPT ![p] =
                  Failed(@.op, "StoreError", @.pc, @.sawStatus, @.writes)]
    /\ UNCHANGED <<users, sessions, ledger, tokens, now, calls, evaluated, lobbyVars, unitVars>>

Step(p) ==
    \/ \E inp \in ExecuteInputs : ExecuteCall(p, inp[1], inp[2])
    \/ ExecCreate(p)
    \/ ExecLock(p)
    \/ ExecAppend(p)
    \/ \E tok \in TokenInputs, results \in ResultsInputs : SettleCall(p, tok, results)
    \/ SettleFindUsers(p)
    \/ SettleUpdate(p)
    \/ SettleAppend(p)
    \/ SettleSession(p)
    \/ \E tok \in TokenInputs : CancelCall(p, tok)
    \/ CancelFindUsers(p)
    \/ CancelUpdate(p)
    \/ CancelAppend(p)
    \/ CancelStatus(p)
    \/ Return(p)

Next == \E p \in Procs : Step(p)

(* the calls alone, the clock standing still *)
Spec == Init /\ [][Next]_vars

NextClock == Next \/ Tick

(* the calls while time passes *)
SpecClock == Init /\ [][NextClock]_vars

NextFail == Next \/ (\E p \in Procs : StoreFails(p))

SpecFail == Init /\ [][NextFail]_vars

(* no call is between its first step and its return *)
Quiescent == \A p \in Procs : proc[p].pc \in {"idle", "done", "failed"}

(* one call at a time: a request is taken only when no other is in flight *)
SerialStep(p) ==
    \/ \E inp \in ExecuteInputs : Quiescent /\ ExecuteCall(p, inp[1], inp[2])
    \/ ExecCreate(p)
    \/ ExecLock(p)
    \/ ExecAppend(p)
    \/ \E tok \in TokenInputs, results \in ResultsInputs :
          Quiescent /\ SettleCall(p, tok, results)
    \/ SettleFindUsers(p)
    \/ SettleUpdate(p)
    \/ SettleAppend(p)
    \/ SettleSession(p)
    \/ \E tok \in TokenInputs : Quiescent /\ CancelCall(p, tok)
    \/ CancelFindUsers(p)
    \/ CancelUpdate(p)
    \/ CancelAppend(p)
    \/ CancelStatus(p)
    \/ Return(p)

NextSerial == \E p \in Procs : SerialStep(p)

SpecSerial == Init /\ [][NextSerial]_vars

(* the steps of a call after its first: the continuations the event loop runs *)
Continue(p) ==
    \/ ExecCreate(p) \/ ExecLock(p) \/ ExecAppend(p)
    \/ SettleFindUsers(p) \/ SettleUpdate(p) \/ SettleAppend(p) \/ SettleSession(p)
    \/ CancelFindUsers(p) \/ CancelUpdate(p) \/ CancelAppend(p) \/ CancelStatus(p)
    \/ Return(p)

NextLive == NextSerial \/ Tick

(* one call at a time while time passes *)
SpecSerialClock == Init /\ [][NextLive]_vars

(* time passes and every call that was taken runs to its end; whether a
   caller makes a further call is up to the caller *)
SpecLive ==
    /\ Init /\ [][NextLive]_vars
    /\ WF_vars(Tick)
    /\ \A p \in Procs : WF_vars(Continue(p))

(* ---------------------------------------------------------------------- *)
(* Lobby: the lobby and lobbyPlayer tables                                *)
(* ---------------------------------------------------------------------- *)
rowsOfLobby(lobbyId) ==
    LET inLobby(r) == r.lobbyId = lobbyId IN SelectSeq(lobbyPlayers, inLobby)

(* Lobby.currentPlayers of the entity read now *)
currentPlayers(lobbyId) == Len(rowsOfLobby(lobbyId))

(* lobbyRepository.findByUserId: lobbyPlayer.findFirst({where: {userId}})
   has no orderBy, so any of the user's rows may come back; null (0) when
   there is none or when that row's lobby is CLOSED or IN_GAME *)
findByUserId(userId) ==
    LET rows == {k \in DOMAIN lobbyPlayers : lobbyPlayers[k].userId = userId}
    IN  IF rows = {} THEN {0}
        ELSE {IF lobbies[lobbyPlayers[k].lobbyId].status \in {"CLOSED", "IN_GAME"}
              THEN 0 ELSE lobbyPlayers[k].lobbyId : k \in rows}

(* the lobby.findFirst of getOrCreateWaitingLobby: any WAITING lobby of the
   contract, 0 if there is none *)
findFirstWaiting(contractId) ==
    LET waiting == {l \in DOMAIN lobbies :
                      /\ lobbies[l].contractId = contractId
                      /\ lobbies[l].status = "WAITING"}
    IN  IF waiting = {} THEN {0} ELSE waiting

(* lobbyRepository.create *)
createLobby(ls, contractId) == Append(ls, [contractId |-> contractId, status |-> "WAITING"])

(* lobbyRepository.addPlayer: lobbyPlayer.create *)
addPlayer(rows, lobbyId, userId) == Append(rows, [lobbyId |-> lobbyId, userId |-> userId])

(* lobbyRepository.removePlayer: lobbyPlayer.deleteMany({where: {lobbyId, userId}}) *)
removePlayer(rows, lobbyId, userId) ==
    LET keep(r) == ~(r.lobbyId = lobbyId /\ r.userId = userId) IN SelectSeq(rows, keep)

(* lobbyRepository.updateStatus *)
updateLobbyStatus(ls, lobbyId, status) == [ls EXCEPT ![lobbyId].status = status]

(* ---------------------------------------------------------------------- *)
(* Lobby: the SSE broadcaster                                             *)
(* ---------------------------------------------------------------------- *)
LobbyEvent(type, userId) == [type |-> type, userId |-> userId]

broadcastStreamsAll(st, cl, lobbyId, event) ==
    [c \in DOMAIN st |->
        IF st[c].writable
        THEN [st[c] EXCEPT !.written = Append(@, event)]
        ELSE st[c]]

(* broadcast(lobbyId, event), the writes: every client of the lobby's set
   whose socket takes the write gets the event appended *)
broadcastStreams(st, cl, lobbyId, event) ==
    [c \in DOMAIN st |->
        IF /\ lobbyId \in DOMAIN cl
           /\ cl[lobbyId].has
           /\ c \in Range(cl[lobbyId].set)
           /\ st[c].writable
        THEN [st[c] EXCEPT !.written = Append(@, event)]
        ELSE st[c]]

broadcastClientsKeep(st, cl, lobbyId) == cl

(* broadcast(lobbyId, event), the catch: a client whose write throws is
   deleted from the set; the map entry stays *)
broadcastClients(st, cl, lobbyId) ==
    IF lobbyId \in DOMAIN cl /\ cl[lobbyId].has
    THEN LET alive(c) == st[c].writable
         IN  [cl EXCEPT ![lobbyId].set = SelectSeq(@, alive)]
    ELSE cl

(* one broadcaster.broadcast call of a use case *)
Broadcast(lobbyId, event) ==
    /\ streams' = broadcastStreams(streams, clients, lobbyId, event)
    /\ clients' = broadcastClients(streams, clients, lobbyId)
    /\ log' = Append(log, [lobbyId |-> lobbyId, event |-> event])

(* the comment line of a heartbeat, kept apart from the typed events *)
HeartbeatLine == LobbyEvent("heartbeat", "")

Heartbeats == {k \in DOMAIN log : log[k].event = HeartbeatLine}

(* one tick of startHeartbeat's interval for one key of the map:
   sendHeartbeat(lobbyId) writes the line to every client of the set and
   deletes the clients whose write throws *)
sendHeartbeat(lobbyId) ==
    /\ clients[lobbyId].has
    /\ Cardinality(Heartbeats) < MaxBeats
    /\ Broadcast(lobbyId, HeartbeatLine)
    /\ UNCHANGED <<users, sessions, ledger, tokens, now, proc, calls, failures, evaluated,
                   lobbies, lobbyPlayers, lproc, lcalls, unitVars>>

(* GET /lobbies/:id/events for a lobby that exists: the connected line is
   written to the reply, then addClient(lobbyId, randomUUID(), reply) *)
Subscribe(lobbyId) ==
    /\ lobbyId \in DOMAIN lobbies
    /\ Len(streams) < MaxClients
    /\ streams' = Append(streams, [lobbyId |-> lobbyId, open |-> TRUE, writable |-> TRUE,
                                   since |-> Len(log),
                                   written |-> <<LobbyEvent("connected", "")>>])
    /\ clients' = [clients EXCEPT ![lobbyId] =
                     [has |-> TRUE, set |-> Append(@.set, Len(streams) + 1)]]
    /\ UNCHANGED <<users, sessions, ledger, tokens, now, proc, calls, failures, evaluated,
                   lobbies, lobbyPlayers, lproc, lcalls, log, unitVars>>

(* the socket of a client fails: the next write to it throws *)
SocketError(c) ==
    /\ c \in DOMAIN streams
    /\ streams[c].open /\ streams[c].writable
    /\ streams' = [streams EXCEPT ![c].writable = FALSE]
    /\ UNCHANGED <<users, sessions, ledger, tokens, now, proc, calls, failures, evaluated,
                   lobbies, lobbyPlayers, lproc, lcalls, clients, log, unitVars>>

(* removeClient(lobbyId, clientId): the client leaves the set, and an empty
   set leaves the map *)
removeClient(cl, lobbyId, clientId) ==
    IF ~cl[lobbyId].has THEN cl
    ELSE LET other(c) == c # clientId
             rest == SelectSeq(cl[lobbyId].set, other)
         IN  [cl EXCEPT ![lobbyId] = IF rest = <<>> THEN NoClients
                                     ELSE [has |-> TRUE, set |-> rest]]

(* the 'close' event of a client's connection *)
Close(c) ==
    /\ c \in DOMAIN streams
    /\ streams[c].open
    /\ streams' = [streams EXCEPT ![c].open = FALSE, ![c].writable = FALSE]
    /\ clients' = removeClient(clients, streams[c].lobbyId, c)
    /\ UNCHANGED <<users, sessions, ledger, tokens, now, proc, calls, failures, evaluated,
                   lobbies, lobbyPlayers, lproc, lcalls, log, unitVars>>

(* ---------------------------------------------------------------------- *)
(* Lobby: Join                                                            *)
(* ---------------------------------------------------------------------- *)
LobbyFreeSlot(p) ==
    /\ lproc[p].pc = "idle"
    /\ \A q \in Procs : q < p => lproc[q].pc # "idle"

LobbyFailed(op, err, userId) ==
    [LobbyIdle EXCEPT !.pc = "failed", !.op = op, !.err = err, !.userId = userId]

LobbyDone(me) ==
    [LobbyIdle EXCEPT !.pc = "done", !.op = me.op, !.userId = me.userId,
                      !.lobbyId = me.lobbyId]

(* getUserByFirebaseUid: id, displayName and balance of the row, the total
   balance; 0 is no row *)
getUserByFirebaseUid(uid) ==
    IF \E u \in Users : firebaseUid(u) = uid
    THEN LET u == CHOOSE v \in Users : firebaseUid(v) = uid
         IN  [id |-> u, balance |-> users[u].balance]
    ELSE [id |-> "", balance |-> 0]

(* POST /lobby/join and steps 1-3 of JoinLobbyUseCase.execute: the bearer's
   user, findByUserId, getContractInfo, userBalance < entryFee *)
joinError(user, existing, contract) ==
    IF user.id = "" THEN "UNAUTHORIZED"
    ELSE IF existing # 0 THEN "AlreadyInLobbyError"
    ELSE IF contract = NoContract THEN "ContractNotFoundError"
    ELSE IF user.balance < contract.entryFee THEN "InsufficientFundsError"
    ELSE ""

JoinCall(p, uid, cid) ==
    /\ LobbyFreeSlot(p)
    /\ lcalls < MaxLobbyCalls
    /\ LET user == getUserByFirebaseUid(uid)
       IN  \E existing \in IF user.id = "" THEN {0} ELSE findByUserId(user.id) :
             LET e == joinError(user, existing, findContractById(cid))
             IN  lproc' = [lproc EXCEPT ![p] =
                    IF e # "" THEN LobbyFailed("Join", e, user.id)
                    ELSE [LobbyIdle EXCEPT !.pc = "JoinFindWaiting", !.op = "Join",
                                           !.userId = user.id,
                                           !.userBalance = user.balance,
                                           !.contractId = cid]]
    /\ lcalls' = lcalls + 1
    /\ UNCHANGED <<users, sessions, ledger, tokens, now, proc, calls, failures, evaluated,
                   lobbies, lobbyPlayers, clients, streams, log, unitVars>>

(* step 4, the read of getOrCreateWaitingLobby: a WAITING lobby of the
   contract with fewer players than maxPlayers is taken, otherwise a lobby
   will be created *)
JoinFindWaiting(p) ==
    /\ lproc[p].pc = "JoinFindWaiting"
    /\ \E existing \in findFirstWaiting(lproc[p].contractId) :
          lproc' = [lproc EXCEPT ![p] =
             IF /\ existing # 0
                /\ currentPlayers(existing) < findContractById(@.contractId).maxPlayers
             THEN [@ EXCEPT !.pc = "JoinAddPlayer", !.lobbyId = existing]
             ELSE [@ EXCEPT !.pc = "JoinCreate"]]
    /\ UNCHANGED <<users, sessions, ledger, tokens, now, proc, calls, failures, evaluated,
                   lobbies, lobbyPlayers, lcalls, clients, streams, log, unitVars>>

(* step 4, the write of getOrCreateWaitingLobby; step 5 finds the new lobby
   not full *)
JoinCreate(p) ==
    /\ lproc[p].pc = "JoinCreate"
    /\ lobbies' = createLobby(lobbies, lproc[p].contractId)
    /\ lproc' = [lproc EXCEPT ![p] =
          IF 0 >= findContractById(@.contractId).maxPlayers
          THEN LobbyFailed("Join", "LobbyFullError", @.userId)
          ELSE [@ EXCEPT !.pc = "JoinAddPlayer", !.lobbyId = Len(lobbies) + 1]]
    /\ UNCHANGED <<users, sessions, ledger, tokens, now, proc, calls, failures, evaluated,
                   lobbyPlayers, lcalls, clients, streams, log, unitVars>>

(* an admission that locks the entry fee as it adds the player *)
JoinAddPlayerLocking(p) ==
    /\ lproc[p].pc = "JoinAddPlayer"
    /\ lobbyPlayers' = addPlayer(lobbyPlayers, lproc[p].lobbyId, lproc[p].userId)
    /\ users' = updateBalance(users,
                    lockFunds(toEntity(lproc[p].userId),
                              findContractById(lproc[p].contractId).entryFee))
    /\ Broadcast(lproc[p].lobbyId, LobbyEvent("player_joined", lproc[p].userId))
    /\ lproc' = [lproc EXCEPT ![p].pc = "JoinFindById"]
    /\ UNCHANGED <<sessions, ledger, tokens, now, proc, calls, failures, evaluated,
                   lobbies, lcalls, unitVars>>

(* steps 6-7: addPlayer, then broadcast player_joined *)
JoinAddPlayer(p) ==
    /\ lproc[p].pc = "JoinAddPlayer"
    /\ lobbyPlayers' = addPlayer(lobbyPlayers, lproc[p].lobbyId, lproc[p].userId)
    /\ Broadcast(lproc[p].lobbyId, LobbyEvent("player_joined", lproc[p].userId))
    /\ lproc' = [lproc EXCEPT ![p].pc = "JoinFindById"]
    /\ UNCHANGED <<users, sessions, ledger, tokens, now, proc, calls, failures, evaluated,
                   lobbies, lcalls, unitVars>>

(* step 8: findById; lobby_starting is broadcast when the lobby read has
   maxPlayers players; the lobby row is not written *)
JoinFindById(p) ==
    /\ lproc[p].pc = "JoinFindById"
    /\ LET me == lproc[p]
           contract == findContractById(me.contractId)
           n == currentPlayers(me.lobbyId)
           isReady == n >= contract.minPlayers
       IN  IF isReady /\ n = contract.maxPlayers
           THEN Broadcast(me.lobbyId, LobbyEvent("lobby_starting", ""))
           ELSE UNCHANGED <<clients, streams, log>>
    /\ lproc' = [lproc EXCEPT ![p] = LobbyDone(@)]
    /\ UNCHANGED <<users, sessions, ledger, tokens, now, proc, calls, failures, evaluated,
                   lobbies, lobbyPlayers, lcalls, unitVars>>

(* ---------------------------------------------------------------------- *)
(* Lobby: Leave                                                           *)
(* ---------------------------------------------------------------------- *)
(* POST /lobby/leave and step 1: the bearer's user, findByUserId *)
LeaveCall(p, uid) ==
    /\ LobbyFreeSlot(p)
    /\ lcalls < MaxLobbyCalls
    /\ LET user == getUserByFirebaseUid(uid)
       IN  \E existing \in IF user.id = "" THEN {0} ELSE findByUserId(user.id) :
             lproc' = [lproc EXCEPT ![p] =
                IF user.id = "" THEN LobbyFailed("Leave", "UNAUTHORIZED", "")
                ELSE IF existing = 0 THEN LobbyFailed("Leave", "NotFoundError", user.id)
                ELSE [LobbyIdle EXCEPT !.pc = "LeaveRemove", !.op = "Leave",
                                       !.userId = user.id, !.lobbyId = existing]]
    /\ lcalls' = lcalls + 1
    /\ UNCHANGED <<users, sessions, ledger, tokens, now, proc, calls, failures, evaluated,
                   lobbies, lobbyPlayers, clients, streams, log, unitVars>>

(* steps 2-3: removePlayer, then broadcast player_left *)
LeaveRemove(p) ==
    /\ lproc[p].pc = "LeaveRemove"
    /\ lobbyPlayers' = removePlayer(lobbyPlayers, lproc[p].lobbyId, lproc[p].userId)
    /\ Broadcast(lproc[p].lobbyId, LobbyEvent("player_left", lproc[p].userId))
    /\ lproc' = [lproc EXCEPT ![p].pc = "LeaveFindById"]
    /\ UNCHANGED <<users, sessions, ledger, tokens, now, proc, calls, failures, evaluated,
                   lobbies, lcalls, unitVars>>

(* step 4, the read: findById and currentPlayers === 0 *)
LeaveFindById(p) ==
    /\ lproc[p].pc = "LeaveFindById"
    /\ lproc' = [lproc EXCEPT ![p] =
          IF currentPlayers(@.lobbyId) = 0 THEN [@ EXCEPT !.pc = "LeaveClose"]
          ELSE LobbyDone(@)]
    /\ UNCHANGED <<users, sessions, ledger, tokens, now, proc, calls, failures, evaluated,
                   lobbies, lobbyPlayers, lcalls, clients, streams, log, unitVars>>

(* step 4, the write: updateStatus(CLOSED), then broadcast lobby_closed *)
LeaveClose(p) ==
    /\ lproc[p].pc = "LeaveClose"
    /\ lobbies' = updateLobbyStatus(lobbies, lproc[p].lobbyId, "CLOSED")
    /\ Broadcast(lproc[p].lobbyId, LobbyEvent("lobby_closed", ""))
    /\ lproc' = [lproc EXCEPT ![p] = LobbyDone(@)]
    /\ UNCHANGED <<users, sessions, ledger, tokens, now, proc, calls, failures, evaluated,
                   lobbyPlayers, lcalls, unitVars>>

LobbyReturn(p) ==
    /\ lproc[p].pc \in {"done", "failed"}
    /\ lproc' = [lproc EXCEPT ![p] = LobbyIdle]
    /\ UNCHANGED <<users, sessions, ledger, tokens, now, proc, calls, failures, evaluated,
                   lobbies, lobbyPlayers, lcalls, clients, streams, log, unitVars>>

LobbyStep(p) ==
    \/ \E uid \in UidInputs, cid \in ContractInputs : JoinCall(p, uid, cid)
    \/ JoinFindWaiting(p)
    \/ JoinCreate(p)
    \/ JoinAddPlayer(p)
    \/ JoinFindById(p)
    \/ \E uid \in UidInputs : LeaveCall(p, uid)
    \/ LeaveRemove(p)
    \/ LeaveFindById(p)
    \/ LeaveClose(p)
    \/ LobbyReturn(p)

NextLobby == \E p \in Procs : LobbyStep(p)

(* the bank as n completed Execute calls of A and B against c1 leave it *)
ExecutesDone == {n \in 0..MaxSessions : n * EntryFee <= InitialBalance("A")}

InitLobby ==
    \E n \in ExecutesDone :
        /\ users = [u \in Users |->
                      [balance |-> InitialBalance(u),
                       lockedBalance |-> IF u \in {"A", "B"} THEN n * EntryFee ELSE 0]]
        /\ sessions = [sid \in 1..n |->
                         [id |-> sid, contractId |-> "c1", status |-> "PENDING",
                          totalPot |-> 2 * EntryFee, expiresAt |-> TtlSeconds,
                          settled |-> FALSE,
                          players |-> [k \in 1..2 |->
                                         [userId |-> UserOrder[k], amountLocked |-> EntryFee,
                                          isWinner |-> FALSE, winAmount |-> 0]]]]
        /\ ledger = [i \in 1..(2 * n) |->
                       LedgerRow(UserOrder[2 - (i % 2)], "LOCK", EntryFee,
                                 InitialBalance(UserOrder[2 - (i % 2)]), (i + 1) \div 2)]
        /\ tokens = 1..n
        /\ now = 0
        /\ proc = [p \in Procs |-> Idle]
        /\ calls = n
        /\ failures = 0
        /\ evaluated = NoEvaluation
        /\ InitUnits
        /\ lobbies = <<>>
        /\ lobbyPlayers = <<>>
        /\ lproc = [p \in Procs |-> LobbyIdle]
        /\ lcalls = 0
        /\ clients = [l \in LobbyIds |-> NoClients]
        /\ streams = <<>>
        /\ log = <<>>

(* Join and Leave calls in any interleaving, nobody listening *)
SpecLobby == InitLobby /\ [][NextLobby]_vars

(* the lobby tables empty and nothing locked in the bank *)
InitFanout == InitLobby /\ sessions = <<>>

(* broadcast is synchronous, so a broadcast call is one step in any
   interleaving of requests; the requests are taken one at a time here *)
NextFanout ==
    \/ LobbyStep(1)
    \/ \E lobbyId \in LobbyIds : Subscribe(lobbyId)
    \/ \E c \in 1..MaxClients : SocketError(c)
    \/ \E c \in 1..MaxClients : Close(c)

(* Join and Leave calls while SSE clients come and go *)
SpecFanout == InitFanout /\ [][NextFanout]_vars

NextHeartbeat ==
    \/ LobbyStep(1)
    \/ \E lobbyId \in LobbyIds : Subscribe(lobbyId)
    \/ \E c \in 1..MaxClients : SocketError(c)
    \/ \E c \in 1..MaxClients : Close(c)
    \/ \E lobbyId \in LobbyIds : sendHeartbeat(lobbyId)

(* the same with the heartbeat interval running *)
SpecHeartbeat == InitFanout /\ [][NextHeartbeat]_vars

(* ---------------------------------------------------------------------- *)
(* The GameSession entity called on its own                               *)
(* ---------------------------------------------------------------------- *)
canSettle(status) == status \in {"PENDING", "ACTIVE"}

(* a method that threw: the fields are as they were *)
Threw(entity, method) == [entity EXCEPT !.last = method, !.threw = TRUE]

(* GameSession.activate *)
activate ==
    /\ gameSession' =
          IF gameSession.status # "PENDING" THEN Threw(gameSession, "activate")
          ELSE [gameSession EXCEPT !.status = "ACTIVE",
                                   !.last = "activate", !.threw = FALSE]
    /\ UNCHANGED <<users, sessions, ledger, tokens, now, proc, calls, failures, evaluated,
                   lobbyVars, diceVars, userEntity, cacheVars>>

(* GameSession.settle: _settledAt = new Date() *)
settle ==
    /\ gameSession' =
          IF ~canSettle(gameSession.status) THEN Threw(gameSession, "settle")
          ELSE [gameSession EXCEPT !.status = "SETTLED",
                                   !.settledAt = [isNull |-> FALSE, time |-> now],
                                   !.last = "settle", !.threw = FALSE]
    /\ UNCHANGED <<users, sessions, ledger, tokens, now, proc, calls, failures, evaluated,
                   lobbyVars, diceVars, userEntity, cacheVars>>

(* GameSession.cancel *)
cancel ==
    /\ gameSession' =
          IF ~canCancel(gameSession.status) THEN Threw(gameSession, "cancel")
          ELSE [gameSession EXCEPT !.status = "CANCELLED",
                                   !.last = "cancel", !.threw = FALSE]
    /\ UNCHANGED <<users, sessions, ledger, tokens, now, proc, calls, failures, evaluated,
                   lobbyVars, diceVars, userEntity, cacheVars>>

(* expire that does not look at the status *)
expireAnyStatus ==
    /\ gameSession' = [gameSession EXCEPT !.status = "EXPIRED",
                                          !.last = "expire", !.threw = FALSE]
    /\ UNCHANGED <<users, sessions, ledger, tokens, now, proc, calls, failures, evaluated,
                   lobbyVars, diceVars, userEntity, cacheVars>>

(* GameSession.expire *)
expire ==
    /\ gameSession' =
          IF gameSession.status \in {"SETTLED", "CANCELLED"}
          THEN Threw(gameSession, "expire")
          ELSE [gameSession EXCEPT !.status = "EXPIRED",
                                   !.last = "expire", !.threw = FALSE]
    /\ UNCHANGED <<users, sessions, ledger, tokens, now, proc, calls, failures, evaluated,
                   lobbyVars, diceVars, userEntity, cacheVars>>

(* ---------------------------------------------------------------------- *)
(* The User entity called on its own                                      *)
(* ---------------------------------------------------------------------- *)
EntityAmounts == 0..MaxDelta

Returned(entity, method, amount) ==
    [entity EXCEPT !.last = method, !.amount = amount, !.threw = FALSE]

ThrewOn(entity, method, amount) ==
    [entity EXCEPT !.last = method, !.amount = amount, !.threw = TRUE]

(* User.lockFunds *)
UserLockFunds(amount) ==
    /\ userEntity' =
          IF ~canAfford(userEntity, amount) THEN ThrewOn(userEntity, "lockFunds", amount)
          ELSE Returned(lockFunds(userEntity, amount), "lockFunds", amount)
    /\ UNCHANGED <<users, sessions, ledger, tokens, now, proc, calls, failures, evaluated,
                   lobbyVars, diceVars, gameSession, cacheVars>>

(* User.unlockFunds *)
UserUnlockFunds(amount) ==
    /\ userEntity' =
          IF unlockThrows(userEntity, amount)
          THEN ThrewOn(userEntity, "unlockFunds", amount)
          ELSE Returned(unlockFunds(userEntity, amount), "unlockFunds", amount)
    /\ UNCHANGED <<users, sessions, ledger, tokens, now, proc, calls, failures, evaluated,
                   lobbyVars, diceVars, gameSession, cacheVars>>

(* User.deductLockedFunds *)
UserDeductLockedFunds(amount) ==
    /\ userEntity' =
          IF amount > userEntity.lockedBalance
          THEN ThrewOn(userEntity, "deductLockedFunds", amount)
          ELSE Returned(deductLockedFunds(userEntity, amount), "deductLockedFunds", amount)
    /\ UNCHANGED <<users, sessions, ledger, tokens, now, proc, calls, failures, evaluated,
                   lobbyVars, diceVars, gameSession, cacheVars>>

(* User.addWinnings *)
UserAddWinnings(amount) ==
    /\ userEntity.balance + amount <= MaxBalance
    /\ userEntity' = Returned(addWinnings(userEntity, amount), "addWinnings", amount)
    /\ UNCHANGED <<users, sessions, ledger, tokens, now, proc, calls, failures, evaluated,
                   lobbyVars, diceVars, gameSession, cacheVars>>

(* User.deposit *)
UserDeposit(amount) ==
    /\ userEntity.balance + amount <= MaxBalance
    /\ userEntity' =
          IF amount <= 0 THEN ThrewOn(userEntity, "deposit", amount)
          ELSE Returned([userEntity EXCEPT !.balance = @ + amount], "deposit", amount)
    /\ UNCHANGED <<users, sessions, ledger, tokens, now, proc, calls, failures, evaluated,
                   lobbyVars, diceVars, gameSession, cacheVars>>

(* a withdrawal checked against the balance, not the available balance *)
withdrawThrowsOnBalance(u, amount) == amount > u.balance

withdrawThrows(u, amount) == ~canAfford(u, amount)

(* User.withdraw *)
UserWithdraw(amount) ==
    /\ userEntity' =
          IF withdrawThrows(userEntity, amount) THEN ThrewOn(userEntity, "withdraw", amount)
          ELSE Returned([userEntity EXCEPT !.balance = @ - amount], "withdraw", amount)
    /\ UNCHANGED <<users, sessions, ledger, tokens, now, proc, calls, failures, evaluated,
                   lobbyVars, diceVars, gameSession, cacheVars>>

NextEntities ==
    \/ activate
    \/ settle
    \/ cancel
    \/ expire
    \/ Tick
    \/ \E amount \in EntityAmounts : UserLockFunds(amount)
    \/ \E amount \in EntityAmounts : UserUnlockFunds(amount)
    \/ \E amount \in EntityAmounts : UserDeductLockedFunds(amount)
    \/ \E amount \in EntityAmounts : UserAddWinnings(amount)
    \/ \E amount \in EntityAmounts : UserDeposit(amount)
    \/ \E amount \in EntityAmounts : UserWithdraw(amount)

(* the domain entities under any sequence of their methods *)
SpecEntities == Init /\ [][NextEntities]_vars

(* ---------------------------------------------------------------------- *)
(* The gateway's LRUCache                                                 *)
(* ---------------------------------------------------------------------- *)
CacheKeys == {"k1", "k2", "k3"}

CacheValues == 1..MaxValue

(* set's ttlMs: left out, or given *)
TtlInputs == {[given |-> FALSE, ms |-> 0], [given |-> TRUE, ms |-> 0]}

KeysOf(c) == {c[i].key : i \in DOMAIN c}

(* Map.delete(key) *)
mapDelete(c, key) == LET other(e) == e.key # key IN SelectSeq(c, other)

(* Map.get(key); the entry of a key that is present *)
mapGet(c, key) == c[CHOOSE i \in DOMAIN c : c[i].key = key]

(* get that leaves the entry where it is in the Map *)
lruGetInPlace(c, key) ==
    IF key \notin KeysOf(c) THEN [cache |-> c, found |-> FALSE, value |-> 0]
    ELSE IF now > mapGet(c, key).expiresAt
         THEN [cache |-> mapDelete(c, key), found |-> FALSE, value |-> 0]
    ELSE [cache |-> c, found |-> TRUE, value |-> mapGet(c, key).value]

(* LRUCache.get: undefined for a key that is absent or expired (the expired
   entry is deleted), else the entry is moved to the end and its value
   returned *)
lruGet(c, key) ==
    IF key \notin KeysOf(c) THEN [cache |-> c, found |-> FALSE, value |-> 0]
    ELSE IF now > mapGet(c, key).expiresAt
         THEN [cache |-> mapDelete(c, key), found |-> FALSE, value |-> 0]
    ELSE [cache |-> Append(mapDelete(c, key), mapGet(c, key)),
          found |-> TRUE, value |-> mapGet(c, key).value]

(* set that evicts only when the Map is over capacity *)
lruSetLate(c, key, value, ttlMs) ==
    LET without == mapDelete(c, key)
        room == IF Len(without) > MaxSize /\ without # <<>>
                THEN Tail(without) ELSE without
    IN  Append(room, [key |-> key, value |-> value,
                      expiresAt |-> now + (IF ttlMs.given THEN ttlMs.ms ELSE DefaultTtlMs)])

(* LRUCache.set: delete the key, drop the Map's first key when the size is
   at maxSize, insert at the end *)
lruSet(c, key, value, ttlMs) ==
    LET without == mapDelete(c, key)
        room == IF Len(without) >= MaxSize /\ without # <<>>
                THEN Tail(without) ELSE without
    IN  Append(room, [key |-> key, value |-> value,
                      expiresAt |-> now + (IF ttlMs.given THEN ttlMs.ms ELSE DefaultTtlMs)])

(* the key becomes the most recently used *)
Touch(r, key) == LET other(k) == k # key IN Append(SelectSeq(r, other), key)

get(key) ==
    /\ LET r == lruGet(cache, key)
       IN  /\ cache' = r.cache
           /\ recency' = IF r.found THEN Touch(recency, key) ELSE recency
           /\ recencyHas' = IF r.found THEN Touch(recencyHas, key) ELSE recencyHas
           /\ cacheCall' = [op |-> "get", key |-> key, found |-> r.found, value |-> r.value]
    /\ UNCHANGED <<users, sessions, ledger, tokens, now, proc, calls, failures, evaluated,
                   lobbyVars, diceVars, gameSession, userEntity>>

set(key, value, ttlMs) ==
    /\ cache' = lruSet(cache, key, value, ttlMs)
    /\ recency' = Touch(recency, key)
    /\ recencyHas' = Touch(recencyHas, key)
    /\ cacheCall' = [op |-> "set", key |-> key, found |-> FALSE, value |-> value]
    /\ UNCHANGED <<users, sessions, ledger, tokens, now, proc, calls, failures, evaluated,
                   lobbyVars, diceVars, gameSession, userEntity>>

(* LRUCache.has: this.get(key) !== undefined *)
has(key) ==
    /\ LET r == lruGet(cache, key)
       IN  /\ cache' = r.cache
           /\ recencyHas' = IF r.found THEN Touch(recencyHas, key) ELSE recencyHas
           /\ cacheCall' = [op |-> "has", key |-> key, found |-> r.found, value |-> 0]
    /\ UNCHANGED <<users, sessions, ledger, tokens, now, proc, calls, failures, evaluated,
                   lobbyVars, diceVars, gameSession, userEntity, recency>>

(* LRUCache.delete *)
delete(key) ==
    /\ cache' = mapDelete(cache, key)
    /\ cacheCall' = [op |-> "delete", key |-> key, found |-> key \in KeysOf(cache),
                     value |-> 0]
    /\ UNCHANGED <<users, sessions, ledger, tokens, now, proc, calls, failures, evaluated,
                   lobbyVars, diceVars, gameSession, userEntity, recency, recencyHas>>

(* LRUCache.clear *)
clear ==
    /\ cache' = <<>>
    /\ cacheCall' = [op |-> "clear", key |-> "", found |-> FALSE, value |-> 0]
    /\ UNCHANGED <<users, sessions, ledger, tokens, now, proc, calls, failures, evaluated,
                   lobbyVars, diceVars, gameSession, userEntity, recency, recencyHas>>

(* LRUCache.invalidatePattern: the keys the predicate holds for are deleted;
   the count is returned *)
invalidatePattern(matching) ==
    /\ LET kept(e) == e.key \notin matching
       IN  cache' = SelectSeq(cache, kept)
    /\ cacheCall' = [op |-> "invalidatePattern", key |-> "", found |-> FALSE,
                     value |-> Cardinality(KeysOf(cache) \cap matching)]
    /\ UNCHANGED <<users, sessions, ledger, tokens, now, proc, calls, failures, evaluated,
                   lobbyVars, diceVars, gameSession, userEntity, recency, recencyHas>>

NextCache ==
    \/ \E key \in CacheKeys : get(key)
    \/ \E key \in CacheKeys, value \in CacheValues, ttlMs \in TtlInputs :
          set(key, value, ttlMs)
    \/ \E key \in CacheKeys : has(key)
    \/ \E key \in CacheKeys : delete(key)
    \/ clear
    \/ \E matching \in SUBSET CacheKeys : invalidatePattern(matching)
    \/ Tick

(* any sequence of calls on one LRUCache while time passes *)
SpecCache == Init /\ [][NextCache]_vars

(* ---------------------------------------------------------------------- *)
(* DiceRoyale: RollDice                                                   *)
(* ---------------------------------------------------------------------- *)
(* the values randomInt(1, 6) is drawn from here: its ends *)
RollValues == {1, 6}

(* toEntity: the players that have a roll row *)
hasRolled(rolls) == {rolls[k].userId : k \in DOMAIN rolls}

(* DiceGame.allPlayersRolled on a snapshot *)
allPlayersRolled(rolled) == \A k \in DOMAIN DicePlayers : DicePlayers[k] \in rolled

(* the checks of execute() on the game findById returned *)
rollError(game, userId) ==
    IF game.status # "ROLLING" THEN "Game is not in rolling phase"
    ELSE IF userId \notin Range(DicePlayers) THEN "Player is not in this game"
    ELSE IF userId \in hasRolled(game.rolls) THEN "Player has already rolled"
    ELSE ""

DiceFreeSlot(p) ==
    /\ dproc[p].pc = "idle"
    /\ \A q \in Procs : q < p => dproc[q].pc # "idle"

(* POST /dice-royale/:gameId/roll up to the first write: findById, the
   checks, game.recordRoll on the entity that was read *)
RollCall(p, userId, rollValue) ==
    /\ DiceFreeSlot(p)
    /\ dcalls < MaxRollCalls
    /\ LET e == rollError(diceGame, userId)
       IN  dproc' = [dproc EXCEPT ![p] =
              IF e # "" THEN [DiceIdle EXCEPT !.pc = "failed", !.userId = userId, !.err = e]
              ELSE [DiceIdle EXCEPT !.pc = "RollRecord", !.userId = userId,
                                    !.rolled = hasRolled(diceGame.rolls) \cup {userId},
                                    !.rollValue = rollValue]]
    /\ dcalls' = dcalls + 1
    /\ UNCHANGED <<users, sessions, ledger, tokens, now, proc, calls, failures, evaluated,
                   lobbyVars, gameSession, userEntity, cacheVars, diceGame, completions>>

(* diceGameRepository.recordRoll: diceRoyaleRoll.create; the call returns
   here unless the entity it read has every player rolled *)
RollRecord(p) ==
    /\ dproc[p].pc = "RollRecord"
    /\ diceGame' = [diceGame EXCEPT !.rolls =
                       Append(@, [userId |-> dproc[p].userId,
                                  rollValue |-> dproc[p].rollValue])]
    /\ dproc' = [dproc EXCEPT ![p].pc =
                    IF allPlayersRolled(dproc[p].rolled) THEN "RollStatus" ELSE "done"]
    /\ UNCHANGED <<users, sessions, ledger, tokens, now, proc, calls, failures, evaluated,
                   lobbyVars, gameSession, userEntity, cacheVars, dcalls, completions>>

(* diceGameRepository.updateStatus(game.id, 'COMPLETE') *)
RollStatus(p) ==
    /\ dproc[p].pc = "RollStatus"
    /\ diceGame' = [diceGame EXCEPT !.status = "COMPLETE"]
    /\ dproc' = [dproc EXCEPT ![p].pc = "RollCallback"]
    /\ UNCHANGED <<users, sessions, ledger, tokens, now, proc, calls, failures, evaluated,
                   lobbyVars, gameSession, userEntity, cacheVars, dcalls, completions>>

(* await this.onGameComplete(game.id, winners) *)
RollCallback(p) ==
    /\ dproc[p].pc = "RollCallback"
    /\ completions' = completions + 1
    /\ dproc' = [dproc EXCEPT ![p].pc = "done"]
    /\ UNCHANGED <<users, sessions, ledger, tokens, now, proc, calls, failures, evaluated,
                   lobbyVars, gameSession, userEntity, cacheVars, diceGame, dcalls>>

(* the response is sent *)
RollReturn(p) ==
    /\ dproc[p].pc \in {"done", "failed"}
    /\ dproc' = [dproc EXCEPT ![p] = DiceIdle]
    /\ UNCHANGED <<users, sessions, ledger, tokens, now, proc, calls, failures, evaluated,
                   lobbyVars, gameSession, userEntity, cacheVars, diceGame, dcalls,
                   completions>>

DiceStep(p) ==
    \/ \E userId \in Users, rollValue \in RollValues : RollCall(p, userId, rollValue)
    \/ RollRecord(p)
    \/ RollStatus(p)
    \/ RollCallback(p)
    \/ RollReturn(p)

NextDice == \E p \in Procs : DiceStep(p)

(* roll requests of one game in any interleaving *)
SpecDice == Init /\ [][NextDice]_vars

(* ---------------------------------------------------------------------- *)
(* The pure helpers called on their own                                   *)
(* ---------------------------------------------------------------------- *)
(* lists of distinct users: the winners of a results list, in its order *)
WinnerLists ==
    {w \in SeqsUpTo(Users, Cardinality(Users)) \ {<<>>} :
        \A i, j \in DOMAIN w : i # j => w[i] # w[j]}

(* distributeEvenly(amount, winners.length) and the winnerDistribution Settle
   builds from it for a results list whose winners give no winAmount *)
EvaluateDistribution(amount, winners) ==
    /\ evaluated' = [fn |-> "distributeEvenly", amount |-> amount,
                     winners |-> winners,
                     result |-> distributeEvenly(amount, Len(winners)),
                     dist |-> winnerDistribution(
                                [k \in DOMAIN winners |-> ResultOf(winners[k], "win")],
                                amount)]
    /\ UNCHANGED <<users, sessions, ledger, tokens, now, proc, calls, failures, lobbyVars, unitVars>>

(* A platformFee percentage is a JS number; it is counted here in hundredths
   of a percent, so 250 is 2.5 and 10000 is 100 *)
PercentInputs == {0, 50, 250, 500, 1000, 3333, 10000, 12000}

(* CreateContractUseCase: platformFee < 0 || platformFee > 100 is refused *)
createContractAccepts(hundredths) == hundredths >= 0 /\ hundredths <= 10000

(* BigInt(number) throws a RangeError unless the number is an integer *)
bigIntThrows(hundredths) == hundredths % 100 # 0

(* contract.calculatePlatformFee(pot) and calculatePrizePool(pot) for a
   contract created with the percentage *)
feeOf(hundredths, pot) ==
    LET c == [NoContract EXCEPT !.platformFee = hundredths \div 100]
    IN  IF bigIntThrows(hundredths)
        THEN [threw |-> TRUE, platformFee |-> 0, prizePool |-> 0]
        ELSE [threw |-> FALSE, platformFee |-> calculatePlatformFee(c, pot),
              prizePool |-> calculatePrizePool(c, pot)]

EvaluateFee(hundredths, pot) ==
    /\ createContractAccepts(hundredths)
    /\ evaluated' = [fn |-> "calculatePlatformFee", hundredths |-> hundredths,
                     pot |-> pot, out |-> feeOf(hundredths, pot)]
    /\ UNCHANGED <<users, sessions, ledger, tokens, now, proc, calls, failures, lobbyVars, unitVars>>

(* ---------------------------------------------------------------------- *)
(* Session tokens as strings: header.body.signature                       *)
(* ---------------------------------------------------------------------- *)
jwtSecret == "jwtSecret"

(* crypto.createHmac('sha256', key).update(message).digest(...): the digest
   is taken as unforgeable, so it is the pair it was computed from and two
   digests are equal only for the same key and the same message *)
createHmac(key, message) == [key |-> key, message |-> message]

(* a JSON text is the list of its members in insertion order; the empty list
   stands for bytes that are not JSON *)
JwtHeaderText == <<<<"alg", "HS256">>, <<"typ", "JWT">>>>
NoneHeaderText == <<<<"alg", "none">>, <<"typ", "JWT">>>>
NotJson == <<>>

(* JSON.stringify({ ...payload, iat: Date.now() }) *)
stringifyPayload(payload, iat) ==
    << <<"sessionId", payload.sessionId>>, <<"contractId", payload.contractId>>,
       <<"playerIds", payload.playerIds>>, <<"totalPot", payload.totalPot>>,
       <<"expiresAt", payload.expiresAt>>, <<"iat", iat>> >>

(* the value of a member of a JSON text *)
member(text, name) ==
    text[CHOOSE k \in DOMAIN text : text[k][1] = name][2]

(* JSON.parse of a payload text *)
parsePayload(text) ==
    [sessionId |-> member(text, "sessionId"), contractId |-> member(text, "contractId"),
     playerIds |-> member(text, "playerIds"), totalPot |-> member(text, "totalPot"),
     expiresAt |-> member(text, "expiresAt"), iat |-> member(text, "iat")]

(* Buffer.from(text).toString('base64url') and back *)
toBase64url(text) == [base64url |-> text]
fromBase64url(segment) == segment.base64url

(* a token string is the list of its dot-separated segments *)
generateSessionToken(payload, iat) ==
    LET header == toBase64url(JwtHeaderText)
        body == toBase64url(stringifyPayload(payload, iat))
        signature == createHmac(jwtSecret, <<header, body>>)
    IN  <<header, body, signature>>

NullPayload == [valid |-> FALSE]

(* a verification that decodes the body without comparing the signature *)
verifyTokenStringUnsigned(token) ==
    IF Len(token) < 2 \/ fromBase64url(token[2]) = NotJson THEN NullPayload
    ELSE [valid |-> TRUE, payload |-> parsePayload(fromBase64url(token[2]))]

(* verifySessionToken(token: string): split('.') keeps the first three
   segments; a missing signature is undefined and differs from expectedSig;
   JSON.parse throws on a body that is not JSON and the catch returns null *)
verifyTokenString(token) ==
    IF Len(token) < 3 THEN NullPayload
    ELSE LET header == token[1]
             body == token[2]
             signature == token[3]
             expectedSig == createHmac(jwtSecret, <<header, body>>)
         IN  IF signature # expectedSig THEN NullPayload
             ELSE IF fromBase64url(body) = NotJson THEN NullPayload
             ELSE [valid |-> TRUE, payload |-> parsePayload(fromBase64url(body))]

(* the payloads Execute mints tokens for, and the times it mints them at *)
TokenPayloads ==
    [sessionId : {"s1", "s2"}, contractId : {"c1"},
     playerIds : {<<"A", "B">>, <<"B", "A">>}, totalPot : {"20"},
     expiresAt : {"t1"}]

MintedTokens ==
    {generateSessionToken(payload, iat) : payload \in TokenPayloads, iat \in 0..MaxTime}

(* what a client may send in place of a minted token: the token itself, or
   the token with its header, body or signature replaced, cut or extended;
   replacement signatures are made with another key or taken from another
   minted token *)
Tampers == {"none", "header", "body", "bodyNotJson", "signatureOtherKey",
            "signatureOfOther", "otherToken", "noSignature", "extraSegment"}

tamper(kind, minted, other) ==
    CASE kind = "none" -> minted
      [] kind = "header" -> <<toBase64url(NoneHeaderText), minted[2], minted[3]>>
      [] kind = "body" -> <<minted[1], other[2], minted[3]>>
      [] kind = "bodyNotJson" -> <<minted[1], toBase64url(NotJson), minted[3]>>
      [] kind = "signatureOtherKey" ->
            <<minted[1], minted[2], createHmac("otherSecret", <<minted[1], minted[2]>>)>>
      [] kind = "signatureOfOther" -> <<minted[1], minted[2], other[3]>>
      [] kind = "otherToken" -> other
      [] kind = "noSignature" -> <<minted[1], minted[2]>>
      [] OTHER -> minted \o <<minted[1]>>

EvaluateToken(payload, iat, other, kind) ==
    /\ LET minted == generateSessionToken(payload, iat)
           token == tamper(kind, minted, other)
       IN  evaluated' = [fn |-> "verifySessionToken", payload |-> payload,
                         iat |-> iat, minted |-> minted, token |-> token,
                         result |-> verifyTokenString(token)]
    /\ UNCHANGED <<users, sessions, ledger, tokens, now, proc, calls, failures, lobbyVars, unitVars>>

(* ---------------------------------------------------------------------- *)
(* Request signatures of the contract routes                              *)
(* ---------------------------------------------------------------------- *)
GameIds == {"g1", "g2"}
GameIdHeaders == GameIds \cup {"gx"}

(* generateSecureToken(32): the secret Register Game returns for a game. A
   key is a value and the number of times it was put through SHA-256 *)
clientSecret(gameId) == [value |-> gameId, hashed |-> 0]

(* crypto.createHash('sha256').update(secret).digest('hex') *)
createHash(secret) == [secret EXCEPT !.hashed = @ + 1]

(* the games table after Register Game: only the hash is stored *)
NoGame == [id |-> "", clientSecretHash |-> [value |-> "", hashed |-> 0]]
findGameById(gameId) ==
    IF gameId \in GameIds
    THEN [id |-> gameId, clientSecretHash |-> createHash(clientSecret(gameId))]
    ELSE NoGame

(* JSON.stringify(request.body) of the requests a game backend sends *)
RequestBodies == {"execute body", "settle body", "cancel body"}

(* verifyHmacSignature(body, signature, gameId): the expected signature is
   keyed with game.clientSecretHash *)
verifyHmacSignature(body, signature, gameId) ==
    LET game == findGameById(gameId)
        expectedSig == createHmac(game.clientSecretHash, body)
    IN  IF game = NoGame THEN FALSE
        ELSE signature = expectedSig

(* what the signer keys the HMAC with: the secret it was given, or the
   SHA-256 hex digest of it *)
KeyKinds == {"clientSecret", "clientSecretHash"}

signingKey(kind, gameId) ==
    IF kind = "clientSecret" THEN clientSecret(gameId)
    ELSE createHash(clientSecret(gameId))

(* a contract route's signature check for a request signed by signer's
   backend and sent with X-Game-Id gameId *)
EvaluateSignature(gameId, signer, kind, body) ==
    /\ LET signature == createHmac(signingKey(kind, signer), body)
           isValid == verifyHmacSignature(body, signature, gameId)
       IN  evaluated' = [fn |-> "verifyHmacSignature", gameId |-> gameId,
                         signer |-> signer, kind |-> kind, body |-> body,
                         isValid |-> isValid,
                         code |-> IF isValid THEN "" ELSE "INVALID_SIGNATURE"]
    /\ UNCHANGED <<users, sessions, ledger, tokens, now, proc, calls, failures, lobbyVars, unitVars>>

NextHelpers ==
    \/ \E amount \in 0..MaxAmount, winners \in WinnerLists :
          EvaluateDistribution(amount, winners)
    \/ \E hundredths \in PercentInputs, pot \in 0..MaxPot :
          EvaluateFee(hundredths, pot)
    \/ \E payload \in TokenPayloads, iat \in 0..MaxTime, other \in MintedTokens,
           kind \in Tampers :
          EvaluateToken(payload, iat, other, kind)
    \/ \E gameId \in GameIdHeaders, signer \in GameIds, kind \in KeyKinds,
           body \in RequestBodies :
          EvaluateSignature(gameId, signer, kind, body)

SpecHelpers == Init /\ [][NextHelpers]_vars

(* ---------------------------------------------------------------------- *)
(* Properties                                                             *)
(* ---------------------------------------------------------------------- *)
Terminal == {"SETTLED", "CANCELLED", "EXPIRED"}

LedgerOf(u) ==
    LET mine(e) == e.userId = u IN SelectSeq(ledger, mine)

(* the change of the total balance an entry records *)
BalanceEffect(e) ==
    CASE e.type = "WIN" -> e.amount
      [] e.type = "LOSE" -> 0 - e.amount
      [] OTHER -> 0

(* the change of the locked balance an entry records *)
LockedEffect(e) ==
    CASE e.type = "LOCK" -> e.amount
      [] e.type \in {"UNLOCK", "LOSE"} -> 0 - e.amount
      [] OTHER -> 0

SumOver(s, F(_)) == SeqSum([k \in DOMAIN s |-> F(s[k])])

(* the entries that end session sid for player u *)
TerminalEntries(sid, u) ==
    {k \in DOMAIN ledger : /\ ledger[k].sessionId = sid
                           /\ ledger[k].userId = u
                           /\ ledger[k].type \in {"LOSE", "UNLOCK"}}

(* C1: every user has balance >= 0 and 0 <= lockedBalance <= balance, in
   every state any interleaving of Execute, Settle and Cancel reaches *)
C1_NonNegativity ==
    \A u \in Users :
        /\ users[u].balance >= 0
        /\ users[u].lockedBalance >= 0
        /\ users[u].lockedBalance <= users[u].balance

(* C2: of the Settle and Cancel calls racing on one session exactly one
   applies its effects: no player of a session ever has two terminal
   (LOSE / UNLOCK) entries for it, and no two such calls are both past their
   checks on the same session *)
C2_OneTerminalTransition ==
    /\ \A sid \in DOMAIN sessions : \A u \in Users :
           Cardinality(TerminalEntries(sid, u)) <= 1
    /\ \A p, q \in Procs :
           (/\ p # q
            /\ proc[p].op \in {"Settle", "Cancel"}
            /\ proc[q].op \in {"Settle", "Cancel"}
            /\ proc[p].sess.id = proc[q].sess.id
            /\ proc[p].pc = "done")
           => proc[q].pc = "failed"

(* C3: for every SETTLED session the players' amountLocked sum to totalPot,
   and totalPot is platformFee plus the winAmount recorded for its winners *)
C3_SettledConservation ==
    \A sid \in DOMAIN sessions :
        LET s == sessions[sid]
            locked(pl) == pl.amountLocked
            won(pl) == IF pl.isWinner THEN pl.winAmount ELSE 0
            fee == calculatePlatformFee(findContractById(s.contractId), s.totalPot)
        IN  s.status = "SETTLED" =>
              /\ SumOver(s.players, locked) = s.totalPot
              /\ s.totalPot = fee + SumOver(s.players, won)

(* the explicit winAmounts of a results list are not a valid distribution:
   some winner has none, or they do not sum to the prize pool *)
BadExplicit(results, session) ==
    LET w == Winners(results)
        amount(r) == r.winAmount
        prizePool == calculatePrizePool(findContractById(session.contractId),
                                        session.totalPot)
    IN  /\ \E k \in DOMAIN w : w[k].hasAmount
        /\ \/ \E k \in DOMAIN w : ~w[k].hasAmount
           \/ SumOver(w, amount) # prizePool

(* C4: a Settle whose explicit winAmounts do not sum to prizePool, or that
   leaves a winner without one, is rejected with ValidationError *)
C4_ExplicitAmountsValidated ==
    [][\A p \in Procs, tok \in tokens, results \in ResultsInputs :
          (SettleCall(p, tok, results) /\ BadExplicit(results, sessions[tok]))
          => (proc'[p].pc = "failed" /\ proc'[p].err = "ValidationError")]_vars

(* C5: a Settle whose results do not name exactly the session's players
   (one omitted, or one that is no player of the session) is rejected *)
C5_ResultsCoverExactly ==
    [][\A p \in Procs, tok \in tokens, results \in ResultsInputs :
          (SettleCall(p, tok, results)
             /\ ResultIds(results) # PlayerIds(sessions[tok]))
          => proc'[p].pc = "failed"]_vars

(* C6: a Settle or Cancel whose findById returns a session in status
   SETTLED, CANCELLED or EXPIRED fails at once, leaving users, ledger and
   sessions as they are, and a Settle that finds SETTLED fails with the
   already-settled conflict error *)
C6_TerminalImmutable ==
    [][\A p \in Procs :
          (/\ proc[p].pc = "idle"
           /\ proc'[p].op \in {"Settle", "Cancel"}
           /\ proc'[p].sawStatus \in Terminal)
          => /\ proc'[p].pc = "failed"
             /\ proc'[p].writes = 0
             /\ users' = users /\ ledger' = ledger /\ sessions' = sessions
             /\ (proc'[p].op = "Settle" /\ proc'[p].sawStatus = "SETTLED")
                  => proc'[p].err = "SessionAlreadySettledError"]_vars

(* a second Settle on a settled session has been refused *)
C6_Witness ==
    \E p \in Procs :
        /\ proc[p].op = "Settle"
        /\ proc[p].sawStatus = "SETTLED"
        /\ proc[p].pc = "failed"
        /\ proc[p].err = "SessionAlreadySettledError"
        /\ \E sid \in DOMAIN sessions : sessions[sid].status = "SETTLED"

(* C7: a call that failed has none of its writes in the stores: what is
   persisted is the complete state from before the call *)
C7_AllOrNothing ==
    \A p \in Procs : proc[p].pc = "failed" => proc[p].writes = 0

(* C8: when calls on different sessions overlap, the rows end as some serial
   order of the calls leaves them.  Every call moves a balance by the amounts
   its ledger entries record, so in any serial order each row ends at its
   initial value plus the recorded moves *)
C8_NoLostUpdate ==
    (/\ Quiescent
     /\ \A sid \in DOMAIN sessions : \A u \in Users :
            Cardinality(TerminalEntries(sid, u)) <= 1)
    => \A u \in Users :
          /\ users[u].lockedBalance = SumOver(LedgerOf(u), LockedEffect)
          /\ users[u].balance = InitialBalance(u) + SumOver(LedgerOf(u), BalanceEffect)

(* C9: once the calls have returned, the balanceAfter of a user's latest
   ledger entry is the stored balance, and the stored balance is the initial
   balance plus the signed effects of the user's entries *)
C9_LedgerBalanceConsistency ==
    Quiescent =>
      \A u \in Users :
          LET mine == LedgerOf(u)
          IN  /\ mine # <<>> => mine[Len(mine)].balanceAfter = users[u].balance
              /\ users[u].balance = InitialBalance(u) + SumOver(mine, BalanceEffect)

(* C10: the step at which an Execute fails a precondition changes no user,
   session or ledger row, and the call has written nothing before it *)
C10_FailedExecuteWritesNothing ==
    [][\A p \in Procs :
          (/\ proc[p].pc # "failed"
           /\ proc'[p].pc = "failed"
           /\ proc'[p].op = "Execute"
           /\ proc'[p].err # "StoreError")
          => /\ proc[p].writes = 0
             /\ proc'[p].writes = 0
             /\ users' = users /\ ledger' = ledger /\ sessions' = sessions]_vars

(* an Execute was refused for a player who cannot afford the entry fee *)
C10_Witness ==
    \E p \in Procs :
        /\ proc[p].op = "Execute"
        /\ proc[p].pc = "failed"
        /\ proc[p].err = "InsufficientFundsError"

(* the rows of b that come after the rows of a, when b extends a *)
Appended(a, b) == SubSeq(b, Len(a) + 1, Len(b))

(* C11: an Execute that is not overlapped by another call inserts one PENDING
   session with totalPot = entryFee * n and a player row of amountLocked =
   entryFee per user, raises each player's lockedBalance by entryFee and
   leaves the balance, and appends one LOCK entry per player for the session *)
C11_ExecuteEffects ==
    [][\A p \in Procs :
          LET me == proc[p]
              n == Len(me.ents)
              entryFee == findContractById(me.cid).entryFee
          IN  /\ (me.pc = "ExecCreate" /\ proc'[p] # me)
                 => LET s == sessions'[Len(sessions')]
                    IN  /\ Appended(sessions, sessions') = <<s>>
                        /\ SubSeq(sessions', 1, Len(sessions)) = sessions
                        /\ s.status = "PENDING"
                        /\ s.totalPot = entryFee * n
                        /\ Len(s.players) = n
                        /\ \A k \in 1..n :
                              /\ s.players[k].userId = me.ents[k].id
                              /\ s.players[k].amountLocked = entryFee
                        /\ proc'[p].pc = "ExecLock"
                        /\ users' = users /\ ledger' = ledger
              /\ (me.pc = "ExecLock" /\ proc'[p] # me)
                 => /\ users' = [users EXCEPT ![me.ents[me.i].id].lockedBalance =
                                                 @ + entryFee]
                    /\ proc'[p].pc = IF me.i = n THEN "ExecAppend" ELSE "ExecLock"
                    /\ sessions' = sessions /\ ledger' = ledger
              /\ (me.pc = "ExecAppend" /\ proc'[p] # me)
                 => LET new == Appended(ledger, ledger')
                    IN  /\ SubSeq(ledger', 1, Len(ledger)) = ledger
                        /\ Len(new) = n
                        /\ \A k \in 1..n :
                              /\ new[k].userId = me.sess.players[k].userId
                              /\ new[k].type = "LOCK"
                              /\ new[k].amount = entryFee
                              /\ new[k].sessionId = me.sess.id
                        /\ proc'[p].pc = "done"
                        /\ users' = users /\ sessions' = sessions]_vars

(* an Execute has returned: its session is PENDING, both players have the
   entry fee locked and a LOCK entry each *)
C11_Witness ==
    \E p \in Procs :
        /\ proc[p].op = "Execute" /\ proc[p].pc = "done"
        /\ sessions[proc[p].sess.id].status = "PENDING"
        /\ \A k \in DOMAIN sessions[proc[p].sess.id].players :
              LET u == sessions[proc[p].sess.id].players[k].userId
              IN  /\ users[u].lockedBalance = EntryFee
                  /\ users[u].balance = InitialBalance(u)
                  /\ \E j \in DOMAIN ledger :
                        /\ ledger[j].userId = u /\ ledger[j].type = "LOCK"
                        /\ ledger[j].sessionId = proc[p].sess.id

(* index of user uid among the players of session s *)
PlayerIndex(s, uid) == CHOOSE k \in DOMAIN s.players : s.players[k].userId = uid

(* two players at balance 1000 with 100 locked, fee 5%: after deduct and
   winnings the single winner holds 1090 / 0 and the loser 900 / 0 *)
SettleExample ==
    LET c == [NoContract EXCEPT !.entryFee = 100, !.platformFee = 5,
                                !.minPlayers = 2, !.maxPlayers = 2]
        before == [id |-> "A", balance |-> 1000, lockedBalance |-> 100]
        prizePool == calculatePrizePool(c, calculateTotalPot(c, 2))
        loser == deductLockedFunds(before, c.entryFee)
        winner == addWinnings(loser, distributeEvenly(prizePool, 1)[1])
    IN  /\ winner.balance = 1090 /\ winner.lockedBalance = 0
        /\ loser.balance = 900 /\ loser.lockedBalance = 0

(* C12: a Settle that is not overlapped by another call takes amountLocked
   off both balance and lockedBalance of each session player, adds the
   winner's winAmount to a winner's balance, and ends by storing SETTLED with
   the winners' rows; the 1000 / 100 / 5% example gives 1090 / 0 and 900 / 0 *)
C12_SettleEffects ==
    [][\A p \in Procs :
          LET me == proc[p]
          IN  /\ SettleExample
              /\ (me.pc = "SettleUpdate" /\ proc'[p] # me)
                 => LET u == me.ents[me.i].id
                        k == PlayerIndex(me.sess, u)
                        amountLocked == me.sess.players[k].amountLocked
                        won == IF me.rows[k].isWinner THEN me.rows[k].winAmount ELSE 0
                    IN  /\ users' = [users EXCEPT
                              ![u] = [balance |-> @.balance - amountLocked + won,
                                      lockedBalance |-> @.lockedBalance - amountLocked]]
                        /\ proc'[p].pc \in {"SettleUpdate", "SettleAppend"}
                        /\ sessions' = sessions /\ ledger' = ledger
              /\ (me.pc = "SettleAppend" /\ proc'[p] # me)
                 => LET new == Appended(ledger, ledger')
                    IN  /\ SubSeq(ledger', 1, Len(ledger)) = ledger
                        /\ \A j \in DOMAIN new :
                              /\ new[j].sessionId = me.sess.id
                              /\ new[j].type \in {"LOSE", "WIN"}
                        /\ \A k \in DOMAIN me.sess.players :
                              Cardinality({j \in DOMAIN new :
                                  /\ new[j].userId = me.sess.players[k].userId
                                  /\ new[j].type = "LOSE"
                                  /\ new[j].amount = me.sess.players[k].amountLocked}) = 1
                        /\ users' = users /\ sessions' = sessions
              /\ (me.pc = "SettleSession" /\ proc'[p] # me)
                 => /\ sessions'[me.sess.id].status = "SETTLED"
                    /\ \A sid \in DOMAIN sessions :
                          sid # me.sess.id => sessions'[sid] = sessions[sid]
                    /\ proc'[p].pc = "done"
                    /\ users' = users /\ ledger' = ledger]_vars

(* a Settle with one winner has returned: the winner holds the initial
   balance less the entry fee plus the prize pool, the loser the initial
   balance less the entry fee, and neither has funds locked *)
C12_Witness ==
    \E p \in Procs, sid \in DOMAIN sessions :
        /\ proc[p].op = "Settle" /\ proc[p].pc = "done" /\ proc[p].sess.id = sid
        /\ sessions[sid].status = "SETTLED"
        /\ LET c == findContractById(sessions[sid].contractId)
               prizePool == calculatePrizePool(c, sessions[sid].totalPot)
           IN  \E w, l \in Users :
                 /\ w # l
                 /\ PlayerIds(sessions[sid]) = {w, l}
                 /\ users[w] = [balance |-> InitialBalance(w) - c.entryFee + prizePool,
                                lockedBalance |-> 0]
                 /\ users[l] = [balance |-> InitialBalance(l) - c.entryFee,
                                lockedBalance |-> 0]

(* every session there is has been cancelled and no call is in flight *)
AllCancelled ==
    /\ Quiescent
    /\ sessions # <<>>
    /\ \A sid \in DOMAIN sessions : sessions[sid].status = "CANCELLED"

(* C13: a Cancel that is not overlapped by another call lowers each session
   player's lockedBalance by amountLocked and leaves the balance, appends one
   UNLOCK entry per player and nothing else (no fee), and stores CANCELLED;
   once every Execute has been followed by its Cancel each user is back at
   the balance and lockedBalance held before *)
C13_CancelEffects ==
    [][\A p \in Procs :
          LET me == proc[p]
          IN  /\ (me.pc = "CancelUpdate" /\ proc'[p] # me)
                 => LET u == me.ents[me.i].id
                        amountLocked == me.sess.players[PlayerIndex(me.sess, u)].amountLocked
                    IN  /\ users' = [users EXCEPT ![u].lockedBalance = @ - amountLocked]
                        /\ proc'[p].pc \in {"CancelUpdate", "CancelAppend"}
                        /\ sessions' = sessions /\ ledger' = ledger
              /\ (me.pc = "CancelAppend" /\ proc'[p] # me)
                 => LET new == Appended(ledger, ledger')
                    IN  /\ SubSeq(ledger', 1, Len(ledger)) = ledger
                        /\ Len(new) = Len(me.sess.players)
                        /\ \A k \in DOMAIN me.sess.players :
                              /\ new[k].userId = me.sess.players[k].userId
                              /\ new[k].type = "UNLOCK"
                              /\ new[k].amount = me.sess.players[k].amountLocked
                              /\ new[k].sessionId = me.sess.id
                        /\ users' = users /\ sessions' = sessions
              /\ (me.pc = "CancelStatus" /\ proc'[p] # me)
                 => /\ sessions'[me.sess.id].status = "CANCELLED"
                    /\ \A sid \in DOMAIN sessions :
                          sid # me.sess.id => sessions'[sid] = sessions[sid]
                    /\ proc'[p].pc = "done"
                    /\ users' = users /\ ledger' = ledger
              /\ AllCancelled'
                 => \A u \in Users :
                       users'[u] = [balance |-> InitialBalance(u), lockedBalance |-> 0]]_vars

(* an Execute and then its Cancel have run: the session is CANCELLED, the
   ledger holds a LOCK and an UNLOCK per player, nobody has funds locked *)
C13_Witness ==
    \E p \in Procs, sid \in DOMAIN sessions :
        /\ proc[p].op = "Cancel" /\ proc[p].pc = "done" /\ proc[p].sess.id = sid
        /\ AllCancelled
        /\ \A u \in PlayerIds(sessions[sid]) :
              /\ users[u] = [balance |-> InitialBalance(u), lockedBalance |-> 0]
              /\ \E j, k \in DOMAIN ledger :
                    /\ j < k
                    /\ ledger[j].userId = u /\ ledger[j].type = "LOCK"
                    /\ ledger[k].userId = u /\ ledger[k].type = "UNLOCK"
                    /\ ledger[j].sessionId = sid /\ ledger[k].sessionId = sid

(* C14: every session a Settle has settled has a FEE ledger entry that
   references it, for the platform fee computed from its pot *)
C14_FeeEntryWritten ==
    \A sid \in DOMAIN sessions :
        sessions[sid].status = "SETTLED"
        => \E j \in DOMAIN ledger :
              /\ ledger[j].type = "FEE"
              /\ ledger[j].sessionId = sid
              /\ ledger[j].amount =
                    calculatePlatformFee(findContractById(sessions[sid].contractId),
                                         sessions[sid].totalPot)

(* C15: a session still PENDING or ACTIVE after its expiresAt does not stay
   so forever: it reaches a terminal status (EXPIRED by the sweep, unless a
   caller settled or cancelled it first) *)
C15_ExpiredSessionsSwept ==
    \A sid \in 1..MaxSessions :
        (/\ sid \in DOMAIN sessions
         /\ sessions[sid].status \in {"PENDING", "ACTIVE"}
         /\ now > sessions[sid].expiresAt)
        ~> (sid \in DOMAIN sessions /\ sessions[sid].status \in Terminal)

(* C16: a Settle on a PENDING or ACTIVE session is refused with
   SessionExpiredError, nothing written, when the clock is past expiresAt,
   and is not refused for expiry when the clock is at or before expiresAt *)
C16_SettleChecksExpiry ==
    [][\A p \in Procs, tok \in tokens, results \in ResultsInputs :
          (SettleCall(p, tok, results)
             /\ sessions[tok].status \in {"PENDING", "ACTIVE"})
          => /\ now > sessions[tok].expiresAt
                => /\ proc'[p].pc = "failed"
                   /\ proc'[p].err = "SessionExpiredError"
                   /\ proc'[p].writes = 0
                   /\ users' = users /\ ledger' = ledger /\ sessions' = sessions
             /\ now <= sessions[tok].expiresAt
                => proc'[p].err # "SessionExpiredError"]_vars

(* a Settle was refused as expired; its session is still PENDING past its
   expiresAt, the players' funds still locked *)
C16_Witness ==
    \E p \in Procs, sid \in DOMAIN sessions :
        /\ proc[p].op = "Settle" /\ proc[p].pc = "failed"
        /\ proc[p].err = "SessionExpiredError"
        /\ sessions[sid].status = "PENDING"
        /\ now > sessions[sid].expiresAt
        /\ \A u \in PlayerIds(sessions[sid]) : users[u].lockedBalance >= EntryFee

(* C17: a Settle that finds its session CANCELLED or EXPIRED fails with an
   error kind of its own, neither the validation error nor the
   already-settled conflict *)
C17_InvalidStateKind ==
    \A p \in Procs :
        (proc[p].op = "Settle" /\ proc[p].sawStatus \in {"CANCELLED", "EXPIRED"})
        => /\ proc[p].pc = "failed"
           /\ proc[p].err \notin {"ValidationError", "SessionAlreadySettledError"}

(* the list names some id more than once *)
HasDuplicates(uids) == \E i, j \in DOMAIN uids : i # j /\ uids[i] = uids[j]

(* C18: an Execute whose player list names an id twice is rejected with
   nothing written, and with ValidationError when its contract exists and is
   active *)
C18_DuplicatePlayersRejected ==
    [][\A p \in Procs, inp \in ExecuteInputs :
          (ExecuteCall(p, inp[1], inp[2]) /\ HasDuplicates(inp[2]))
          => /\ proc'[p].pc = "failed"
             /\ proc'[p].writes = 0
             /\ users' = users /\ ledger' = ledger /\ sessions' = sessions
             /\ findContractById(inp[1]).isActive
                  => proc'[p].err = "ValidationError"]_vars

(* an Execute was refused with ValidationError and an empty list of missing
   uids: every uid it named is a user, one of them named twice *)
C18_Witness ==
    \E p \in Procs :
        /\ proc[p].op = "Execute" /\ proc[p].pc = "failed"
        /\ proc[p].err = "ValidationError" /\ proc[p].msg = "users not found: "
        /\ sessions = <<>>

(* C19: the default distribution of an amount >= 0 over k >= 1 winners has k
   shares that sum to the amount and differ by at most 1, the first
   (amount mod k) winners of the results list getting the larger share;
   1000 over 3 winners is 334, 333, 333 *)
C19_DistributionExact ==
    /\ distributeEvenly(1000, 3) = <<334, 333, 333>>
    /\ evaluated.fn = "distributeEvenly"
       => LET amount == evaluated.amount
              k == Len(evaluated.winners)
              r == evaluated.result
          IN  /\ Len(r) = k
              /\ SeqSum(r) = amount
              /\ \A i, j \in DOMAIN r : r[i] - r[j] <= 1
              /\ \A i \in DOMAIN r :
                    r[i] = (amount \div k) + (IF i <= amount % k THEN 1 ELSE 0)
              /\ Len(evaluated.dist) = k
              /\ \A i \in 1..k :
                    /\ evaluated.dist[i].playerId = evaluated.winners[i]
                    /\ evaluated.dist[i].amount = r[i]

(* an amount that does not divide was split over three winners: the first
   holds one more than the last *)
C19_Witness ==
    /\ evaluated.fn = "distributeEvenly"
    /\ Len(evaluated.result) = 3
    /\ evaluated.amount % 3 = 1
    /\ evaluated.result[1] = evaluated.result[3] + 1
    /\ evaluated.result[2] = evaluated.result[3]

(* C20: for every percentage CreateContract accepts, fractional ones
   included, and every pot, the fee is floor(pot * percent / 100), the prize
   pool is the pot less the fee, and 0 <= fee <= pot *)
C20_FeeFormula ==
    evaluated.fn = "calculatePlatformFee"
    => /\ ~evaluated.out.threw
       /\ evaluated.out.platformFee = (evaluated.pot * evaluated.hundredths) \div 10000
       /\ evaluated.out.prizePool = evaluated.pot - evaluated.out.platformFee
       /\ evaluated.out.platformFee >= 0
       /\ evaluated.out.platformFee <= evaluated.pot

(* a Settle request that must be refused: its token does not verify, its
   session is terminal or past its expiry, a session player has no result,
   or no result is marked as a winner *)
SettleRefused(tok, results) ==
    \/ tok \notin tokens
    \/ tok \notin DOMAIN sessions
    \/ /\ tok \in tokens
       /\ tok \in DOMAIN sessions
       /\ \/ sessions[tok].status \in Terminal
          \/ now > sessions[tok].expiresAt
          \/ \E k \in DOMAIN sessions[tok].players :
                \A j \in DOMAIN results :
                    results[j].playerId # sessions[tok].players[k].userId
          \/ \A j \in DOMAIN results : ~results[j].isWinner

(* C21: a Settle that must be refused fails in its first step and has
   written nothing: balances, locked balances, ledger and sessions are as
   they were *)
C21_FailedSettleWritesNothing ==
    [][\A p \in Procs, tok \in TokenInputs, results \in ResultsInputs :
          (SettleCall(p, tok, results) /\ SettleRefused(tok, results))
          => /\ proc'[p].pc = "failed"
             /\ proc'[p].op = "Settle"
             /\ proc'[p].writes = 0
             /\ users' = users /\ ledger' = ledger /\ sessions' = sessions]_vars

(* a Settle whose results mark no winner was refused; its session is still
   PENDING and its players' funds are still locked *)
C21_Witness ==
    \E p \in Procs, sid \in DOMAIN sessions :
        /\ proc[p].op = "Settle" /\ proc[p].pc = "failed"
        /\ proc[p].msg = "no winner" /\ proc[p].writes = 0
        /\ sessions[sid].status = "PENDING"
        /\ now <= sessions[sid].expiresAt
        /\ \A u \in PlayerIds(sessions[sid]) : users[u].lockedBalance >= EntryFee
        /\ \A q \in Procs : proc[q].op = "Settle" => proc[q].pc = "failed"

(* C22: verifying the token minted for a payload returns the payload's
   sessionId, contractId, playerIds, totalPot and expiresAt unchanged, and a
   token whose header, body or signature is not that of a minted token is
   rejected *)
C22_TokenRoundTrip ==
    evaluated.fn = "verifySessionToken"
    => /\ evaluated.token = evaluated.minted
          => /\ evaluated.result.valid
             /\ evaluated.result.payload.sessionId = evaluated.payload.sessionId
             /\ evaluated.result.payload.contractId = evaluated.payload.contractId
             /\ evaluated.result.payload.playerIds = evaluated.payload.playerIds
             /\ evaluated.result.payload.totalPot = evaluated.payload.totalPot
             /\ evaluated.result.payload.expiresAt = evaluated.payload.expiresAt
       /\ (\/ Len(evaluated.token) < 3
           \/ /\ Len(evaluated.token) >= 3
              /\ SubSeq(evaluated.token, 1, 3) \notin MintedTokens)
          => ~evaluated.result.valid

(* a minted token whose signature was replaced, header and body kept, was
   presented and rejected *)
C22_Witness ==
    /\ evaluated.fn = "verifySessionToken"
    /\ Len(evaluated.token) = 3
    /\ evaluated.token[1] = evaluated.minted[1]
    /\ evaluated.token[2] = evaluated.minted[2]
    /\ evaluated.token[3] # evaluated.minted[3]
    /\ ~evaluated.result.valid

(* C23: a contract request is accepted by the signature check when its
   signature is the HMAC of the body keyed with the clientSecret Register
   Game returned for the X-Game-Id game, and is refused with
   INVALID_SIGNATURE when it was keyed with anything else *)
C23_SignatureAccepted ==
    evaluated.fn = "verifyHmacSignature"
    => LET rightKey == /\ evaluated.kind = "clientSecret"
                       /\ evaluated.signer = evaluated.gameId
       IN  /\ rightKey => evaluated.isValid
           /\ ~rightKey => (~evaluated.isValid /\ evaluated.code = "INVALID_SIGNATURE")

(* the lobbies that are not CLOSED and hold a row of the user *)
OpenLobbiesOf(u) ==
    {l \in DOMAIN lobbies :
        /\ lobbies[l].status \in {"WAITING", "STARTING", "IN_GAME"}
        /\ \E k \in DOMAIN lobbyPlayers :
              lobbyPlayers[k].lobbyId = l /\ lobbyPlayers[k].userId = u}

(* C24: under any interleaving of Join and Leave calls, every user is a
   member of at most one lobby that is WAITING, STARTING or IN_GAME *)
C24_OneLobbyPerUser ==
    \A u \in Users : Cardinality(OpenLobbiesOf(u)) <= 1

(* the users that hold a row of the lobby *)
MembersOf(l) ==
    {lobbyPlayers[k].userId : k \in {j \in DOMAIN lobbyPlayers : lobbyPlayers[j].lobbyId = l}}

(* C25: under any interleaving of Join calls no lobby has more players than
   its contract's maxPlayers; the players are counted as distinct users, so
   that two rows of one user do not count twice *)
C25_LobbyCapacity ==
    \A l \in DOMAIN lobbies :
        Cardinality(MembersOf(l)) <= findContractById(lobbies[l].contractId).maxPlayers

(* C26: once a Join has completed, a lobby that is WAITING has fewer players
   than its contract's maxPlayers: the Join that fills a lobby moves it to
   STARTING *)
C26_WaitingHasCapacity ==
    (\A p \in Procs : lproc[p].pc \in {"idle", "done", "failed"})
    => \A l \in DOMAIN lobbies :
          lobbies[l].status = "WAITING"
          => currentPlayers(l) < findContractById(lobbies[l].contractId).maxPlayers

(* C27: a Join of a user whose available balance (balance less locked
   balance) is below the contract's entry fee is refused: no Join gets past
   the funds check for such a user *)
C27_JoinNeedsAvailableFunds ==
    \A p \in Procs :
        lproc[p].pc \in {"JoinFindWaiting", "JoinCreate", "JoinAddPlayer", "JoinFindById"}
        => availableBalance(users[lproc[p].userId])
              >= findContractById(lproc[p].contractId).entryFee

(* C28: no step of a Join or of a Leave changes a user's balance or locked
   balance, appends to the ledger or creates a session *)
C28_LobbyLeavesBankAlone ==
    [][lproc' # lproc
       => /\ users' = users
          /\ ledger' = ledger
          /\ sessions' = sessions
          /\ tokens' = tokens]_vars

(* A has joined a lobby with funds locked in a session, a Leave has
   completed as well, and the bank is as the Executes left it *)
C28_Witness ==
    /\ \E k \in DOMAIN lobbyPlayers : lobbyPlayers[k].userId = "A"
    /\ \E p \in Procs : lproc[p].op = "Leave" /\ lproc[p].pc = "done"
    /\ Len(sessions) >= 1
    /\ users["A"].lockedBalance = Len(sessions) * EntryFee
    /\ users["A"].balance = InitialBalance("A")
    /\ Len(ledger) = 2 * Len(sessions)

(* the positions of the log at which an event of the type went to the lobby *)
Broadcasts(l, type) ==
    {k \in DOMAIN log : log[k].lobbyId = l /\ log[k].event.type = type}

(* C29: whatever the interleaving of Leave calls, lobby_closed is broadcast
   at most once per lobby, only for a lobby that is CLOSED, and after a
   player_left of that lobby *)
C29_ClosedOnce ==
    \A l \in DOMAIN lobbies :
        /\ Cardinality(Broadcasts(l, "lobby_closed")) <= 1
        /\ \A k \in Broadcasts(l, "lobby_closed") :
              /\ lobbies[l].status = "CLOSED"
              /\ \E j \in Broadcasts(l, "player_left") : j < k

(* the events of a lobby broadcast after position n of the log, in the order
   of the broadcast calls *)
EventsSince(l, n) ==
    LET F[k \in 0..Len(log)] ==
            IF k = 0 THEN <<>>
            ELSE IF k > n /\ log[k].lobbyId = l THEN Append(F[k - 1], log[k].event)
            ELSE F[k - 1]
    IN  F[Len(log)]

IsPrefix(s, t) == Len(s) <= Len(t) /\ s = SubSeq(t, 1, Len(s))

(* C30: after its connected line, a client that is still registered has
   received exactly the events broadcast to its lobby since it registered,
   in the order of the broadcast calls, and any client has received a
   prefix of them: nothing from before it registered, nothing of another
   lobby, nothing out of order *)
C30_OrderedFanout ==
    \A c \in DOMAIN streams :
        LET mine == EventsSince(streams[c].lobbyId, streams[c].since)
            got  == Tail(streams[c].written)
        IN  /\ Head(streams[c].written) = LobbyEvent("connected", "")
            /\ IsPrefix(got, mine)
            /\ (clients[streams[c].lobbyId].has
                   /\ c \in Range(clients[streams[c].lobbyId].set)) => got = mine

(* a registered client that joined after a first broadcast has received two
   events of its lobby while another lobby's event was broadcast in between *)
C30_Witness ==
    \E c \in DOMAIN streams :
        /\ clients[streams[c].lobbyId].has
        /\ c \in Range(clients[streams[c].lobbyId].set)
        /\ streams[c].since > 0
        /\ Len(streams[c].written) >= 3
        /\ \E k \in DOMAIN log : k > streams[c].since /\ log[k].lobbyId # streams[c].lobbyId

Registered(cl, c) ==
    /\ cl[streams[c].lobbyId].has
    /\ c \in Range(cl[streams[c].lobbyId].set)

(* C31: in a broadcast or heartbeat step for a lobby, every registered
   client of the lobby whose write succeeds gets the line appended and stays
   registered, every registered client whose write throws is no longer
   registered afterwards; a client that is not registered is written nothing
   in any step and never comes back, and a closed client is not registered *)
C31_FailedWriteEvicts ==
    [][\A c \in DOMAIN streams :
          /\ (~Registered(clients, c)) =>
                 /\ streams'[c].written = streams[c].written
                 /\ ~Registered(clients', c)
          /\ (~streams'[c].open) => ~Registered(clients', c)
          /\ (log' # log /\ Registered(clients, c)
                 /\ log'[Len(log')].lobbyId = streams[c].lobbyId) =>
                 IF streams[c].writable
                 THEN /\ streams'[c].written =
                           Append(streams[c].written, log'[Len(log')].event)
                      /\ Registered(clients', c)
                 ELSE /\ streams'[c].written = streams[c].written
                      /\ ~Registered(clients', c)]_vars

(* a lobby had two clients, the write to one threw during a heartbeat or a
   broadcast and it was evicted, the other received the line and a later one *)
C31_Witness ==
    \E c, d \in DOMAIN streams :
        /\ c # d
        /\ streams[c].lobbyId = streams[d].lobbyId
        /\ streams[c].open /\ ~streams[c].writable /\ ~Registered(clients, c)
        /\ Registered(clients, d)
        /\ Len(streams[d].written) >= Len(streams[c].written) + 2
        /\ Heartbeats # {}

(* C32: a Cancel with a valid token on a PENDING or ACTIVE session passes
   its checks whether or not the clock is past expiresAt, and a Cancel that
   is not overlapped by another call fails only at those checks, on a token
   that is not valid or a session that is neither PENDING nor ACTIVE *)
C32_CancelIgnoresExpiry ==
    [][\A p \in Procs :
          /\ \A tok \in tokens :
                (CancelCall(p, tok) /\ sessions[tok].status \in {"PENDING", "ACTIVE"})
                => /\ proc'[p].pc = "CancelFindUsers"
                   /\ proc'[p].sess = sessions[tok]
          /\ (proc'[p].op = "Cancel" /\ proc'[p].pc = "failed")
                => /\ proc'[p].sawStatus \notin {"PENDING", "ACTIVE"}
                   /\ proc'[p].writes = 0]_vars

(* a Cancel taken after the session's expiresAt has run to its end: the
   session is CANCELLED and its players have nothing locked for it *)
C32_Witness ==
    \E p \in Procs, sid \in DOMAIN sessions :
        /\ proc[p].op = "Cancel" /\ proc[p].pc = "done" /\ proc[p].sess.id = sid
        /\ proc[p].sawStatus = "PENDING"
        /\ now > sessions[sid].expiresAt
        /\ sessions[sid].status = "CANCELLED"
        /\ \A u \in PlayerIds(sessions[sid]) : users[u].lockedBalance = 0

(* C33: a GameSession whose status is SETTLED, CANCELLED or EXPIRED keeps
   that status under every later activate, settle, cancel and expire (each
   throws or stores the same status), activate succeeds exactly from
   PENDING, and settledAt is set exactly when the status is SETTLED *)
C33_TerminalIsFrozen ==
    [][/\ gameSession.status \in Terminal
          => /\ gameSession'.status = gameSession.status
             /\ gameSession'.settledAt = gameSession.settledAt
       /\ activate
          => /\ gameSession'.threw <=> gameSession.status # "PENDING"
             /\ ~gameSession'.threw => gameSession'.status = "ACTIVE"
       /\ gameSession'.threw => gameSession'.status = gameSession.status
       /\ (~gameSession.settledAt.isNull) <=> gameSession.status = "SETTLED"
       /\ (~gameSession'.settledAt.isNull) <=> gameSession'.status = "SETTLED"]_vars

(* a session was settled after the clock moved and a later expire threw *)
C33_Witness ==
    /\ gameSession.status = "SETTLED"
    /\ gameSession.settledAt = [isNull |-> FALSE, time |-> now]
    /\ now > 0
    /\ gameSession.last = "expire"
    /\ gameSession.threw

(* C34: under any sequence of the User methods with amounts >= 0 the entity
   keeps 0 <= lockedBalance <= balance; lockFunds(a) with a <= available
   adds a to lockedBalance and leaves balance; lockFunds and withdraw throw
   exactly beyond the available balance, unlockFunds and deductLockedFunds
   exactly beyond lockedBalance, and a call that throws leaves balance and
   lockedBalance as they were *)
C34_UserBalances ==
    [][/\ 0 <= userEntity'.lockedBalance
       /\ userEntity'.lockedBalance <= userEntity'.balance
       /\ userEntity'.threw
          => /\ userEntity'.balance = userEntity.balance
             /\ userEntity'.lockedBalance = userEntity.lockedBalance
       /\ \A a \in EntityAmounts :
             /\ UserLockFunds(a)
                => /\ userEntity'.threw <=> a > availableBalance(userEntity)
                   /\ ~userEntity'.threw
                      => /\ userEntity'.lockedBalance = userEntity.lockedBalance + a
                         /\ userEntity'.balance = userEntity.balance
             /\ UserWithdraw(a)
                => userEntity'.threw <=> a > availableBalance(userEntity)
             /\ (UserUnlockFunds(a) \/ UserDeductLockedFunds(a))
                => userEntity'.threw <=> a > userEntity.lockedBalance]_vars

(* everything is locked after a lockFunds on top of an earlier one, and the
   balance has moved since construction *)
C34_Witness ==
    /\ userEntity.last = "lockFunds"
    /\ ~userEntity.threw
    /\ userEntity.amount > 0
    /\ userEntity.lockedBalance > userEntity.amount
    /\ userEntity.lockedBalance = userEntity.balance
    /\ userEntity.balance # InitialBalance("C")

(* what the PENDING and ACTIVE sessions hold locked for user u *)
RECURSIVE LockedInSessions(_, _)
LockedInSessions(u, n) ==
    IF n = 0 THEN 0
    ELSE LockedInSessions(u, n - 1) +
         (IF sessions[n].status \in {"PENDING", "ACTIVE"} /\ u \in PlayerIds(sessions[n])
          THEN amountLockedOf(sessions[n], u) ELSE 0)

(* C35: whenever every call taken so far has completed, overlapping or
   not, each user's lockedBalance is the sum of amountLocked over the user's
   player rows in the sessions that are PENDING or ACTIVE *)
C35_LockedMatchesOpenSessions ==
    Quiescent
    => \A u \in Users : users[u].lockedBalance = LockedInSessions(u, Len(sessions))

(* C36: every step of a Settle or Cancel call on session s leaves the rows
   of the users who are not players of s and the rows of every other session
   as they are, and adds no session; the step that takes the call writes
   nothing *)
C36_SettleCancelFrame ==
    [][\A p \in Procs :
          /\ (proc[p].op \in {"Settle", "Cancel"} /\ proc'[p] # proc[p])
             => /\ \A u \in Users \ PlayerIds(proc[p].sess) : users'[u] = users[u]
                /\ DOMAIN sessions' = DOMAIN sessions
                /\ \A sid \in DOMAIN sessions :
                      sid # proc[p].sess.id => sessions'[sid] = sessions[sid]
          /\ (proc[p].pc = "idle" /\ proc'[p].op \in {"Settle", "Cancel"})
             => users' = users /\ sessions' = sessions]_vars

(* a Settle has run to its end on one session while another session of the
   same players is still PENDING with its rows untouched, and C, who plays
   in neither, has the row C started with *)
C36_Witness ==
    \E p \in Procs, sid, other \in DOMAIN sessions :
        /\ proc[p].op = "Settle" /\ proc[p].pc = "done" /\ proc[p].sess.id = sid
        /\ sid # other
        /\ sessions[sid].status = "SETTLED"
        /\ sessions[other].status = "PENDING"
        /\ \A k \in DOMAIN sessions[other].players :
              /\ ~sessions[other].players[k].isWinner
              /\ sessions[other].players[k].winAmount = 0
        /\ PlayerIds(sessions[sid]) = PlayerIds(sessions[other])
        /\ users["C"] = [balance |-> InitialBalance("C"), lockedBalance |-> 0]
        /\ \E u \in PlayerIds(sessions[sid]) : users[u].balance # InitialBalance(u)

(* C37: in every interleaving of Join and Leave calls a lobby whose status
   is CLOSED has no player rows *)
C37_ClosedLobbyIsEmpty ==
    \A l \in DOMAIN lobbies :
        lobbies[l].status = "CLOSED" => currentPlayers(l) = 0

(* the key of the Map that comes first in the order r *)
LeastRecent(r) ==
    LET present(k) == k \in KeysOf(cache) IN Head(SelectSeq(r, present))

Evicted == (KeysOf(cache) \ KeysOf(cache')) \ {cacheCall'.key}

(* C38: a set of a key that is not in a cache holding maxSize entries evicts
   exactly the key whose last set or returning get is the oldest, and any
   other set evicts nothing *)
C38_EvictsLeastRecentlyUsed ==
    [][\A key \in CacheKeys, value \in CacheValues, ttlMs \in TtlInputs :
          set(key, value, ttlMs)
          => /\ key \in KeysOf(cache')
             /\ IF key \notin KeysOf(cache) /\ Len(cache) = MaxSize
                THEN Evicted = {LeastRecent(recency)}
                ELSE Evicted = {}]_vars

(* C38 as amended: the same with the recency of a key also refreshed by
   every has that finds it *)
C38_EvictsLeastRecentlyTouched ==
    [][\A key \in CacheKeys, value \in CacheValues, ttlMs \in TtlInputs :
          set(key, value, ttlMs)
          => /\ key \in KeysOf(cache')
             /\ IF key \notin KeysOf(cache) /\ Len(cache) = MaxSize
                THEN Evicted = {LeastRecent(recencyHas)}
                ELSE Evicted = {}]_vars

(* a set into the full cache has just evicted a key that was set after the
   key that is still there, which a has or a get found in between *)
C38_Witness ==
    /\ cacheCall.op = "set"
    /\ Len(cache) = MaxSize
    /\ \E i, j \in DOMAIN recencyHas :
          /\ i < j
          /\ recencyHas[i] \notin KeysOf(cache)
          /\ recencyHas[j] \in KeysOf(cache) \ {cacheCall.key}
    /\ \E k \in CacheKeys \ KeysOf(cache) : k \in Range(recencyHas)

(* C39: after every call the Map holds at most maxSize entries, and a get
   returns a value only for an entry of the Map whose expiresAt the clock
   has not passed, the value of that entry *)
C39_BoundedAndFresh ==
    [][/\ Len(cache) <= MaxSize
       /\ Len(cache') <= MaxSize
       /\ \A key \in CacheKeys :
             (get(key) /\ cacheCall'.found)
             => /\ key \in KeysOf(cache)
                /\ now <= mapGet(cache, key).expiresAt
                /\ cacheCall'.value = mapGet(cache, key).value]_vars

(* the cache has been full with a third key set, time has passed, and a get
   of a key that was set came back empty while another entry is kept *)
C39_Witness ==
    /\ cacheCall.op = "get" /\ ~cacheCall.found
    /\ cacheCall.key \in Range(recency)
    /\ Cardinality(Range(recency)) > MaxSize
    /\ now > 0
    /\ Len(cache) = MaxSize - 1
    /\ \E i \in DOMAIN cache : now > cache[i].expiresAt

RollsOf(u) == {k \in DOMAIN diceGame.rolls : diceGame.rolls[k].userId = u}

(* C40: whenever no roll request is in flight and every player of the game
   has exactly one recorded roll, the stored status is COMPLETE and the
   game-complete callback has been invoked exactly once *)
C40_AllRolledMeansComplete ==
    (/\ \A p \in Procs : dproc[p].pc \in {"idle", "done", "failed"}
     /\ \A k \in DOMAIN DicePlayers : Cardinality(RollsOf(DicePlayers[k])) = 1)
    => /\ diceGame.status = "COMPLETE"
       /\ completions = 1

====
